---- MODULE Spec2Model ----
(***************************************************************************)
(* Mycelium: the OAuth authorization-delegation flow.                      *)
(*                                                                         *)
(* The repository holds four builds of the /authorize and /callback        *)
(* handlers.  The deployed build is fixed at start-up (variable variant):  *)
(*   BetterAuth    cookie session, base64 JSON state                       *)
(*   CodeExchange  PKCE forwarded, authorization-code exchange, JSON state *)
(*   SessionToken  session_token handoff, JSON state                       *)
(*   Heartwood     HeartwoodHandler class, code exchange, D1 session row   *)
(***************************************************************************)
EXTENDS Integers, Sequences, FiniteSets, TLC

VARIABLES
    variant,           \* which build of the handlers is deployed
    authReq,           \* the upstream request given to the last handleAuthorize
    authorizeResp,     \* the response of the last handleAuthorize
    cbReq,             \* the query of the last /callback request
    idpLog,            \* the identity provider's replies to the last callback
    completeAuthCall,  \* the completeAuth invocation of the last callback
    cbResp,            \* the response of the last /callback
    sessions,          \* rows of oauth_sessions (Heartwood build)
    login,             \* the run of `grove login` (device code flow)
    mock,              \* the mock Heartwood server's device codes and polls
    d1,                \* oauth_sessions with its clock, and the requests on it
    tok,               \* the CLI's token storage and the commands using it
    lat,               \* the Lattice write tools' calls and requests
    mig                \* schema_migrations and the runs of runMigrations

vars == <<variant, authReq, authorizeResp, cbReq, idpLog, completeAuthCall,
          cbResp, sessions>>

\* The state of the session store, the CLI token storage, the Lattice tools
\* and the migrations.
rest == <<d1, tok, lat, mig>>

\* Bound on the rows of oauth_sessions (crypto.randomUUID() never runs out).
MaxSessions == 2

Variants == {"BetterAuth", "CodeExchange", "SessionToken", "Heartwood"}

---------------------------------------------------------------------------
\* JavaScript values

NULL  == "<null>"        \* null: URLSearchParams.get of a missing parameter
UNDEF == "<undefined>"   \* undefined: a missing property

\* if (x) on a string or null
Truthy(s) == s # NULL /\ s # UNDEF /\ s # ""

\* A faulty a || b that never falls back to b.
OrElse_NoFallback(a, b) == a

\* a || b on strings
OrElse(a, b) == IF Truthy(a) THEN a ELSE b

\* Strings standing for text with a character above U+00FF (a check mark)
\* and for text whose characters above U+007F are all Latin-1 (e acute).
WideStrs   == {"st_wide"}
Latin1Strs == {"st_latin1"}

\* Strings made of base64 alphabet characters only, of a length atob accepts.
B64AlphabetStrs == {"", "abcd", "xyz"}

---------------------------------------------------------------------------
\* AuthRequest of @cloudflare/workers-oauth-provider, as parseAuthRequest
\* returns it.  defined = FALSE stands for the value undefined.

UndefReq ==
    [defined |-> FALSE, clientId |-> UNDEF, redirectUri |-> UNDEF,
     scope |-> <<>>, state |-> UNDEF, codeChallenge |-> UNDEF,
     codeChallengeMethod |-> UNDEF]

Scopes       == {<<"profile">>, <<"profile", "tenants:read">>}
ClientStates == {"xyz", "st_latin1", "st_wide", ""}
Challenges   == {<<UNDEF, UNDEF>>, <<"ch1", UNDEF>>}

Req(c, s, st, ch) ==
    [defined |-> TRUE, clientId |-> c,
     redirectUri |-> "https://claude.ai/callback", scope |-> s, state |-> st,
     codeChallenge |-> ch[1], codeChallengeMethod |-> ch[2]]

\* The upstream /authorize requests: every combination with a client_id,
\* and one without.
AuthRequests ==
    { Req("claude", s, st, ch) :
        s \in Scopes, st \in ClientStates, ch \in Challenges }
    \cup { Req("", <<"profile">>, "xyz", <<UNDEF, UNDEF>>) }

\* A request the upstream client never sent (a forged state).
ForgedReq == Req("mallory-client", <<"profile", "tenants:write">>, "xyz",
                 <<UNDEF, UNDEF>>)

\* The strings of a request, as JSON.stringify writes them out.
ReqStrings(r) ==
    {r.clientId, r.redirectUri, r.state, r.codeChallenge,
     r.codeChallengeMethod} \cup {r.scope[i] : i \in 1..Len(r.scope)}

---------------------------------------------------------------------------
\* JSON values the state parameter can parse to:
\*   kind "null"    null
\*   kind "number"  a number
\*   kind "object"  an object; oauthReq is its oauthReq property (UndefReq
\*                  when the object has none)

JNull   == [kind |-> "null", oauthReq |-> UndefReq]
JNumber == [kind |-> "number", oauthReq |-> UndefReq]
JObject(r) == [kind |-> "object", oauthReq |-> r]

\* value.oauthReq: a TypeError on null, undefined on a number
HasProps(v) == v.kind # "null"

\* Text: a string, by how it is built.
\*   form "absent"  no string (null)
\*   form "raw"     the literal string raw
\*   form "json"    the JSON text of val
\*   enc  "b64"     the base64 encoding of the text described by form
AbsentText == [enc |-> "plain", form |-> "absent", val |-> JNull, raw |-> NULL]
RawText(s) == [enc |-> "plain", form |-> "raw", val |-> JNull, raw |-> s]
JsonText(v) == [enc |-> "plain", form |-> "json", val |-> v, raw |-> NULL]

\* A faulty truthiness test that takes the empty string for a value.
TruthyText_NotNull(t) == t.form # "absent"

\* if (text) on a string or null
TruthyText(t) == t.form # "absent" /\ ~(t.form = "raw" /\ t.raw = "")

\* Result of an operation that may throw.
Ok(v)  == [ok |-> TRUE, v |-> v]
Throws == [ok |-> FALSE, v |-> AbsentText]

\* The text holds a character above U+00FF.
HasWideChar(t) ==
    /\ t.enc = "plain"
    /\ \/ t.form = "raw" /\ t.raw \in WideStrs
       \/ t.form = "json" /\ ReqStrings(t.val.oauthReq) \cap WideStrs # {}

\* The text is base64 text that atob accepts.  The JSON text null is; 5 has
\* a length atob rejects, an object's text holds braces and quotes.
IsB64Alphabet(t) ==
    \/ t.enc = "b64"
    \/ t.form = "raw" /\ t.raw \in B64AlphabetStrs
    \/ t.form = "json" /\ t.val.kind = "null"

\* JSON.stringify(value): undefined properties are left out, which the
\* representation of a request already does.
JSONstringify(v) == JsonText(v)

\* btoa(text): InvalidCharacterError on a character above U+00FF.
btoa(t) == IF HasWideChar(t) THEN Throws ELSE Ok([t EXCEPT !.enc = "b64"])

\* atob(text): the encoded text back; bytes that are no JSON for any other
\* base64 text; InvalidCharacterError for the rest.
atob(t) ==
    IF t.enc = "b64" THEN Ok([t EXCEPT !.enc = "plain"])
    ELSE IF t.form = "raw" /\ t.raw = "" THEN Ok(RawText(""))
    ELSE IF IsB64Alphabet(t) THEN Ok(RawText("<bytes>"))
    ELSE Throws

\* A faulty JSON.parse that yields null where it should throw.
JSONparse_Lenient(t) == [ok |-> TRUE, v |-> t.val]

\* JSON.parse(text): throws unless the text is JSON text.
JSONparse(t) ==
    IF t.enc = "plain" /\ t.form = "json"
    THEN [ok |-> TRUE, v |-> t.val]
    ELSE [ok |-> FALSE, v |-> JNull]

---------------------------------------------------------------------------
\* Responses of /authorize

NoAuthResp ==
    [kind |-> "none", status |-> 0, error |-> NULL, target |-> NULL,
     state |-> AbsentText, code_challenge |-> NULL,
     code_challenge_method |-> NULL]

\* Response.redirect(url, 302), by the URL's endpoint and query parameters.
\* URLSearchParams.set and get percent-encode and decode without loss.
AuthRedirect(target, state, challenge, method) ==
    [kind |-> "redirect", status |-> 302, error |-> NULL, target |-> target,
     state |-> state, code_challenge |-> challenge,
     code_challenge_method |-> method]

AuthJsonError(status, error) ==
    [NoAuthResp EXCEPT !.kind = "json", !.status = status, !.error = error]

\* The handler's promise rejects: no response is built.
AuthException == [NoAuthResp EXCEPT !.kind = "exception"]

\* BetterAuth build: state = btoa(JSON.stringify({ oauthReq }))
handleAuthorize_BetterAuth(oauthReq) ==
    LET stateData    == JSONstringify(JObject(oauthReq))
        encodedState == btoa(stateData)
    IN  IF ~encodedState.ok THEN AuthException
        ELSE AuthRedirect("auth-api.grove.place/api/auth/sign-in/google",
                          encodedState.v, NULL, NULL)

\* CodeExchange build: PKCE challenge passed through, state = JSON text
handleAuthorize_CodeExchange(oauthReq) ==
    IF Truthy(oauthReq.codeChallenge)
    THEN AuthRedirect("heartwood.grove.place/login",
                      JSONstringify(JObject(oauthReq)),
                      oauthReq.codeChallenge,
                      OrElse(oauthReq.codeChallengeMethod, "S256"))
    ELSE AuthRedirect("heartwood.grove.place/login",
                      JSONstringify(JObject(oauthReq)), NULL, NULL)

\* SessionToken build: no PKCE forwarding, state = JSON text
handleAuthorize_SessionToken(oauthReq) ==
    AuthRedirect("heartwood.grove.place/login",
                 JSONstringify(JObject(oauthReq)), NULL, NULL)

\* Heartwood build: state and code_challenge of the URL passed through.
\* The request stands for the query of the upstream's /authorize URL.
handleAuthorize_Heartwood(url) ==
    AuthRedirect("heartwood.grove.place/oauth/authorize",
                 IF Truthy(url.state) THEN RawText(url.state) ELSE AbsentText,
                 IF Truthy(url.codeChallenge) THEN url.codeChallenge ELSE NULL,
                 IF Truthy(url.codeChallenge) THEN "S256" ELSE NULL)

\* defaultHandler.fetch, /authorize: parseAuthRequest, the client_id check,
\* then handleAuthorize (returned without await: its rejection is not
\* caught by the try block).
defaultHandler_authorize(v, parseOk, oauthReq) ==
    IF ~parseOk THEN AuthJsonError(400, "invalid_request")
    ELSE IF ~Truthy(oauthReq.clientId) THEN AuthJsonError(400, "invalid_request")
    ELSE IF v = "BetterAuth" THEN handleAuthorize_BetterAuth(oauthReq)
    ELSE IF v = "CodeExchange" THEN handleAuthorize_CodeExchange(oauthReq)
    ELSE handleAuthorize_SessionToken(oauthReq)

\* The /authorize route of the deployed build.
AuthorizeRoute(v, parseOk, oauthReq) ==
    IF v = "Heartwood" THEN handleAuthorize_Heartwood(oauthReq)
    ELSE defaultHandler_authorize(v, parseOk, oauthReq)

\* The requests a build's /authorize is driven with.  HeartwoodHandler reads
\* state and code_challenge only.
AuthorizeInputs(v) ==
    IF v = "Heartwood"
    THEN { r \in AuthRequests : r.clientId = "claude" /\ r.scope = <<"profile">> }
    ELSE AuthRequests

---------------------------------------------------------------------------
\* The identity provider's reply to a fetch of the callback handler.
\*   kind "reject"      the fetch promise rejects (network failure)
\*   kind "http_error"  a response whose ok is false (non-2xx)
\*   kind "bad_body"    2xx with a body that json() cannot parse
\*   kind "ok_null"     2xx with the JSON body null
\*   kind "ok"          2xx with a JSON object holding the other fields
\*                      (UNDEF: the property is missing or null)

NoReply ==
    [kind |-> "none", valid |-> FALSE, userId |-> UNDEF, email |-> UNDEF,
     token |-> UNDEF, refresh |-> UNDEF]

Failure(k) == [NoReply EXCEPT !.kind = k]

FailedReplies ==
    {Failure("reject"), Failure("http_error"), Failure("bad_body"),
     Failure("ok_null")}

OkReply(valid, userId, email, token, refresh) ==
    [kind |-> "ok", valid |-> valid, userId |-> userId, email |-> email,
     token |-> token, refresh |-> refresh]

\* A faulty response.ok that is true for every status.
ResponseOk_Always(r) == TRUE

\* response.ok: the status is 2xx
ResponseOk(r) == r.kind # "http_error"

\* GET /api/auth/session: { user, session }
SessionReplies ==
    FailedReplies \cup
    { OkReply(FALSE, UNDEF, UNDEF, UNDEF, UNDEF),
      OkReply(FALSE, "u_alice", "alice@example.com", UNDEF, UNDEF),
      OkReply(FALSE, "u_alice", "alice@example.com", "session-token-xyz", UNDEF) }

\* POST /oauth/token: { access_token, refresh_token }
TokenReplies ==
    FailedReplies \cup
    { OkReply(FALSE, UNDEF, UNDEF, "at1", UNDEF),
      OkReply(FALSE, UNDEF, UNDEF, "at1", "rt1") }

\* POST /session/validate: { id, email }
UserReplies ==
    FailedReplies \cup { OkReply(FALSE, "u_alice", "alice@example.com", UNDEF, UNDEF) }

\* POST /session/validate-service: { valid, user }
ValidateReplies ==
    FailedReplies \cup
    { OkReply(FALSE, UNDEF, UNDEF, UNDEF, UNDEF),
      OkReply(TRUE, "u_alice", "alice@example.com", UNDEF, UNDEF) }

\* The body of the POST to /oauth/token.
NoTokenBody ==
    [sent |-> FALSE, grant_type |-> UNDEF, code |-> UNDEF,
     code_verifier |-> UNDEF]

TokenBody(code) ==
    [sent |-> TRUE, grant_type |-> "authorization_code", code |-> code,
     code_verifier |-> UNDEF]

NoLog == [first |-> NoReply, second |-> NoReply, tokenBody |-> NoTokenBody]

---------------------------------------------------------------------------
\* Responses of /callback

NoResp ==
    [kind |-> "none", status |-> 0, error |-> NULL,
     error_description |-> NULL, location |-> NULL, session_id |-> 0]

\* new Response(JSON.stringify({ error, error_description }), { status })
JsonError(status, error, description) ==
    [NoResp EXCEPT !.kind = "json", !.status = status, !.error = error,
                   !.error_description = description]

\* Response.redirect(location, 302)
Redirect(location, sessionId) ==
    [NoResp EXCEPT !.kind = "redirect", !.status = 302,
                   !.location = location, !.session_id = sessionId]

\* The handler's promise rejects: no response is built.
Exception == [NoResp EXCEPT !.kind = "exception"]

\* The parameters of a completeAuth invocation and the redirectTo it gave.
NoCall ==
    [called |-> FALSE, request |-> UndefReq, userId |-> UNDEF,
     metadataEmail |-> UNDEF, scope |-> <<>>, propsUserId |-> UNDEF,
     propsEmail |-> UNDEF, propsToken |-> UNDEF, redirectTo |-> NULL]

\* completeAuth({ request, userId, metadata: { email }, scope,
\*                props: { userId, email, tenants, <token> } })
CompleteAuth(request, userId, email, token, ext) ==
    [called |-> TRUE, request |-> request, userId |-> userId,
     metadataEmail |-> email, scope |-> request.scope,
     propsUserId |-> userId, propsEmail |-> email, propsToken |-> token,
     redirectTo |-> IF ext = "throw" THEN NULL ELSE ext]

\* No row is inserted.
NoRow ==
    [id |-> 0, user_id |-> UNDEF, email |-> UNDEF, access_token |-> UNDEF,
     refresh_token |-> NULL]

\* What one run of a callback handler did.
Outcome(resp, call, first, second, body, row) ==
    [resp |-> resp, call |-> call,
     log |-> [first |-> first, second |-> second, tokenBody |-> body],
     row |-> row]

\* A run that ends before any fetch.
Early(resp) == Outcome(resp, NoCall, NoReply, NoReply, NoTokenBody, NoRow)

\* completeAuth is awaited, then its redirectTo is redirected to.
Granted(call, first, second, body) ==
    Outcome(IF call.redirectTo = NULL THEN Exception
            ELSE Redirect(call.redirectTo, 0),
            call, first, second, body, NoRow)

---------------------------------------------------------------------------
\* try { state = JSON.parse(atob(stateParam)) } catch { ... }
parseState_BetterAuth(stateParam) ==
    LET stateData == atob(stateParam)
    IN  IF stateData.ok THEN JSONparse(stateData.v)
        ELSE [ok |-> FALSE, v |-> JNull]

\* try { state = JSON.parse(stateParam) } catch { ... }
parseState_Json(stateParam) == JSONparse(stateParam)

---------------------------------------------------------------------------
\* /callback, BetterAuth build

handleCallback_BetterAuth(q, sessionRes, ext) ==
    IF Truthy(q.error)
    THEN Early(JsonError(400, q.error, OrElse(q.error_description, q.error)))
    ELSE IF ~TruthyText(q.state)
    THEN Early(JsonError(400, "missing_state", "No state parameter provided"))
    ELSE LET state == parseState_BetterAuth(q.state)
    IN  IF ~state.ok
        THEN Early(JsonError(400, "invalid_state",
                             "Could not parse state parameter"))
        \* fetch(`${BETTER_AUTH_API}/api/auth/session`), outside any try
        ELSE IF sessionRes.kind = "reject"
        THEN Outcome(Exception, NoCall, sessionRes, NoReply, NoTokenBody, NoRow)
        ELSE IF ~ResponseOk(sessionRes)
        THEN Outcome(JsonError(401, "session_invalid",
                               "Failed to retrieve session from Better Auth"),
                     NoCall, sessionRes, NoReply, NoTokenBody, NoRow)
        \* sessionRes.json() rejects; sessionData.user of null throws
        ELSE IF sessionRes.kind \in {"bad_body", "ok_null"}
        THEN Outcome(Exception, NoCall, sessionRes, NoReply, NoTokenBody, NoRow)
        ELSE IF sessionRes.userId = UNDEF \/ sessionRes.token = UNDEF
        THEN Outcome(JsonError(401, "session_invalid",
                               "No active session found"),
                     NoCall, sessionRes, NoReply, NoTokenBody, NoRow)
        \* state.oauthReq of null throws while the argument is built
        ELSE IF ~HasProps(state.v)
        THEN Outcome(Exception, NoCall, sessionRes, NoReply, NoTokenBody, NoRow)
        ELSE Granted(CompleteAuth(state.v.oauthReq, sessionRes.userId,
                                  sessionRes.email, sessionRes.token, ext),
                     sessionRes, NoReply, NoTokenBody)

---------------------------------------------------------------------------
\* /callback, CodeExchange build

handleCallback_CodeExchange(q, tokenRes, userRes, ext) ==
    IF Truthy(q.error)
    THEN Early(JsonError(400, q.error, OrElse(q.error_description, q.error)))
    ELSE IF ~Truthy(q.code)
    THEN Early(JsonError(400, "missing_code", "No authorization code provided"))
    ELSE IF ~TruthyText(q.state)
    THEN Early(JsonError(400, "missing_state", "No state parameter provided"))
    ELSE LET state == parseState_Json(q.state)
             body  == TokenBody(q.code)
    IN  IF ~state.ok
        THEN Early(JsonError(400, "invalid_state",
                             "Could not parse state parameter"))
        \* fetch("https://auth-api.grove.place/oauth/token"), outside any try
        ELSE IF tokenRes.kind = "reject"
        THEN Outcome(Exception, NoCall, tokenRes, NoReply, body, NoRow)
        ELSE IF ~ResponseOk(tokenRes)
        THEN Outcome(JsonError(502, "token_exchange_failed",
                               "Failed to exchange code for tokens"),
                     NoCall, tokenRes, NoReply, body, NoRow)
        \* tokenRes.json() rejects; tokens.access_token of null throws
        ELSE IF tokenRes.kind \in {"bad_body", "ok_null"}
        THEN Outcome(Exception, NoCall, tokenRes, NoReply, body, NoRow)
        \* fetch("https://auth-api.grove.place/session/validate")
        ELSE IF userRes.kind = "reject"
        THEN Outcome(Exception, NoCall, tokenRes, userRes, body, NoRow)
        ELSE IF ~ResponseOk(userRes)
        THEN Outcome(JsonError(502, "user_info_failed",
                               "Failed to fetch user information"),
                     NoCall, tokenRes, userRes, body, NoRow)
        ELSE IF userRes.kind \in {"bad_body", "ok_null"}
        THEN Outcome(Exception, NoCall, tokenRes, userRes, body, NoRow)
        ELSE IF ~HasProps(state.v)
        THEN Outcome(Exception, NoCall, tokenRes, userRes, body, NoRow)
        ELSE Granted(CompleteAuth(state.v.oauthReq, userRes.userId,
                                  userRes.email, tokenRes.token, ext),
                     tokenRes, userRes, body)

---------------------------------------------------------------------------
\* /callback, SessionToken build

handleCallback_SessionToken(q, validationRes, ext) ==
    IF Truthy(q.error)
    THEN Early(JsonError(400, q.error, OrElse(q.error_description, q.error)))
    ELSE IF ~TruthyText(q.state)
    THEN Early(JsonError(400, "missing_state", "No state parameter provided"))
    ELSE LET state == parseState_Json(q.state)
    IN  IF ~state.ok
        THEN Early(JsonError(400, "invalid_state",
                             "Could not parse state parameter"))
        ELSE IF Truthy(q.session_token) /\ Truthy(q.user_id) /\ Truthy(q.email)
        \* fetch(".../session/validate-service"), outside any try
        THEN IF validationRes.kind = "reject"
             THEN Outcome(Exception, NoCall, validationRes, NoReply,
                          NoTokenBody, NoRow)
             ELSE IF ~ResponseOk(validationRes)
             THEN Outcome(JsonError(401, "session_invalid",
                                    "Session validation failed"),
                          NoCall, validationRes, NoReply, NoTokenBody, NoRow)
             ELSE IF validationRes.kind \in {"bad_body", "ok_null"}
             THEN Outcome(Exception, NoCall, validationRes, NoReply,
                          NoTokenBody, NoRow)
             ELSE IF ~validationRes.valid
             THEN Outcome(JsonError(401, "session_invalid",
                                    "Session is not valid"),
                          NoCall, validationRes, NoReply, NoTokenBody, NoRow)
             ELSE IF ~HasProps(state.v)
             THEN Outcome(Exception, NoCall, validationRes, NoReply,
                          NoTokenBody, NoRow)
             \* userId, email and sessionToken are the query's
             ELSE Granted(CompleteAuth(state.v.oauthReq, q.user_id, q.email,
                                       q.session_token, ext),
                          validationRes, NoReply, NoTokenBody)
        ELSE IF Truthy(q.code)
        THEN Early(JsonError(400, "unsupported_flow",
             "Auth code flow is not supported. Mycelium requires session-based auth."))
        ELSE Early(JsonError(400, "invalid_callback",
                             "Missing required callback parameters"))

---------------------------------------------------------------------------
\* /callback, Heartwood build (HeartwoodHandler.handleCallback)

\* catch (error): every throw inside the try block ends here
InternalError ==
    JsonError(500, "internal_error",
              "An internal error occurred during authentication")

handleCallback_Heartwood(q, tokenResponse, userResponse, ext, sessionId) ==
    IF Truthy(q.error)
    THEN Early(JsonError(400, q.error,
                         OrElse(q.error_description, "OAuth authorization failed")))
    ELSE IF ~Truthy(q.code)
    THEN Early(JsonError(400, "missing_code", "Missing authorization code"))
    ELSE LET body == TokenBody(q.code)
    IN  IF tokenResponse.kind = "reject"
        THEN Outcome(InternalError, NoCall, tokenResponse, NoReply, body, NoRow)
        ELSE IF ~ResponseOk(tokenResponse)
        THEN Outcome(JsonError(500, "token_exchange_failed",
                     "Failed to exchange authorization code for tokens"),
                     NoCall, tokenResponse, NoReply, body, NoRow)
        ELSE IF tokenResponse.kind \in {"bad_body", "ok_null"}
        THEN Outcome(InternalError, NoCall, tokenResponse, NoReply, body, NoRow)
        ELSE IF userResponse.kind = "reject"
        THEN Outcome(InternalError, NoCall, tokenResponse, userResponse, body,
                     NoRow)
        ELSE IF ~ResponseOk(userResponse)
        THEN Outcome(JsonError(500, "session_validation_failed",
                               "Failed to validate user session"),
                     NoCall, tokenResponse, userResponse, body, NoRow)
        ELSE IF userResponse.kind \in {"bad_body", "ok_null"}
        THEN Outcome(InternalError, NoCall, tokenResponse, userResponse, body,
                     NoRow)
        \* INSERT INTO oauth_sessions ... .run() rejects
        ELSE IF ext = "throw"
        THEN Outcome(InternalError, NoCall, tokenResponse, userResponse, body,
                     NoRow)
        ELSE Outcome(Redirect("https://mycelium.grove.place", sessionId),
                     NoCall, tokenResponse, userResponse, body,
                     [id |-> sessionId, user_id |-> userResponse.userId,
                      email |-> userResponse.email,
                      access_token |-> tokenResponse.token,
                      refresh_token |-> IF Truthy(tokenResponse.refresh)
                                        THEN tokenResponse.refresh ELSE NULL])

---------------------------------------------------------------------------
\* The query of a /callback request

Query(err, st, code, handoff) ==
    [error |-> err[1], error_description |-> err[2], state |-> st,
     code |-> code, session_token |-> handoff[1], user_id |-> handoff[2],
     email |-> handoff[3]]

NoQuery == Query(<<NULL, NULL>>, AbsentText, NULL, <<NULL, NULL, NULL>>)

\* error and error_description
ErrorParams ==
    { <<NULL, NULL>>, <<"", NULL>>, <<NULL, "User denied">>,
      <<"access_denied", NULL>>, <<"access_denied", "">>,
      <<"access_denied", "User denied">> }

Codes == {NULL, "code1"}

\* session_token, user_id and email
NoHandoff == <<NULL, NULL, NULL>>
Mallory   == <<"tok1", "u_mallory", "mallory@example.com">>
Handoffs ==
    { NoHandoff, <<"tok1", NULL, NULL>>,
      <<"tok1", "u_alice", "alice@example.com">>, Mallory }

\* btoa of a text without wide characters
B64(t) == btoa(t).v

\* The state the identity provider hands back: the one /authorize sent it.
HandedOut(resp) ==
    IF resp.kind = "redirect" /\ resp.state.form # "absent"
    THEN {resp.state} ELSE {}

\* state values of a callback: missing, empty, no base64, base64 of no JSON,
\* JSON of other shapes, a forged request, and the one handed out.
StateParams(v, resp) ==
    HandedOut(resp) \cup
    ( IF v = "Heartwood" THEN {AbsentText, RawText("abcd")}
      ELSE {AbsentText, RawText(""), RawText("invalid-not-base64")} \cup
           ( IF v = "BetterAuth"
             THEN { RawText("abcd"), JsonText(JNull),
                    JsonText(JObject(UndefReq)), B64(JsonText(JNull)),
                    B64(JsonText(JNumber)), B64(JsonText(JObject(UndefReq))),
                    B64(JsonText(JObject(ForgedReq))) }
             ELSE { JsonText(JNull), JsonText(JNumber),
                    JsonText(JObject(UndefReq)), JsonText(JObject(ForgedReq)),
                    B64(JsonText(JObject(UndefReq))) } ) )

\* The queries a build's /callback is driven with: every parameter the
\* build reads, and a user_id and email for the builds that read none.
CallbackQueries(v, resp) ==
    { Query(e, st, c, h) :
        e \in ErrorParams, st \in StateParams(v, resp),
        c \in IF v = "BetterAuth" THEN {NULL} ELSE Codes,
        h \in IF v = "SessionToken" THEN Handoffs ELSE {NoHandoff, Mallory} }

\* What completeAuth does: throws, or resolves with a redirectTo.
CompleteAuthResults ==
    {"throw", "https://claude.ai/callback?code=abc123",
     "https://claude.ai/callback?code=def456"}

\* What the INSERT does.
InsertResults == {"throw", "ok"}

---------------------------------------------------------------------------
\* grove login, device code flow: the state of one run of the command.
\*   pc            "start" before requestDeviceCode, "test" at the loop
\*                 condition, "sleep" before sleep(), "poll" before
\*                 pollDeviceCode, "done" after the action returned
\*   now           Date.now(), in seconds since the command started
\*   startTime, maxTime, pollInterval   the variables of that name (seconds)
\*   polled        a pollDeviceCode call has been issued
\*   lastPollAt, prevPollAt   when the last poll and the one before it were
\*                 issued (prevPollAt is startTime for the first poll)
\*   intervalAtPoll  pollInterval when the last poll was issued
\*   lastReply     what the last poll returned
\*   quiet         every poll so far returned authorization_pending or
\*                 slow_down
\*   saveCalled, saved   saveToken was invoked; where it stored the token
\*   outcome       what the command reported when it returned

NoLogin ==
    [pc |-> "idle", now |-> 0, startTime |-> 0, maxTime |-> 0,
     pollInterval |-> 0, polled |-> FALSE, lastPollAt |-> 0, prevPollAt |-> 0,
     intervalAtPoll |-> 0, lastReply |-> "none", quiet |-> TRUE,
     saveCalled |-> FALSE,
     saved |-> "none", outcome |-> "none"]

\* The mock Heartwood server, for the device code MOCK_DEVICE_CODE.
\*   status     the entry's status ("none": mockDeviceCodes has no entry)
\*   user_id    the entry's user_id
\*   poll_count the entry's poll_count
\*   first      the status the entry took first when it left pending
\*              ("none": it has not left pending since it was created)
\*   inflight   the polls answered by the server whose result the caller
\*              has not yet received; of each, the entry's status and
\*              first when it was issued, and its result
NoMock ==
    [status |-> "none", user_id |-> "none", poll_count |-> 0,
     first |-> "none", inflight |-> <<>>]

\* The session store of the Heartwood build with its clock.
\*   now     Date.now(), in milliseconds
\*   rows    oauth_sessions, by id: of each row whether it is present, its
\*           user_id, refresh_token (NoToken: NULL), access_token and
\*           expires_at
\*   idp     of each session's grant at Heartwood: how many token responses
\*           were issued for it, which refresh tokens it still accepts and
\*           which a 200 response of POST /token has sent to the client
\*   reqs    the POST /token requests being handled
\*   call    the last call of a helper: "auth" getAuthPropsFromSession
\*           with the session asked for and the props returned, "sweep"
\*           cleanupExpiredSessions with the number returned; seq is the
\*           parity of the number of calls made
NoToken == 0

AbsentRow ==
    [present |-> FALSE, user_id |-> "none", refresh_token |-> NoToken,
     access_token |-> NoToken, expires_at |-> 0]

\* A POST /token request being handled.
\*   pc            "free", "fetch" before Heartwood answers, "update" before
\*                 the UPDATE runs
\*   session_id    body.session_id ("none": the body has none)
\*   grant         the session whose grant the refresh token belongs to
\*   refreshToken  the variable of that name
\*   tokens        Heartwood's token response
FreeReq ==
    [pc |-> "free", session_id |-> "none", grant |-> "none",
     refreshToken |-> NoToken,
     tokens |-> [access_token |-> NoToken, refresh_token |-> NoToken,
                 expires_in |-> 0]]

\* What getAuthPropsFromSession returns: null, or the props of the row.
NullProps ==
    [isNull |-> TRUE, userId |-> "none", accessToken |-> NoToken,
     refreshToken |-> NoToken]

NoD1 ==
    [now |-> 0, rows |-> <<>>, idp |-> <<>>, reqs |-> <<>>,
     call |-> [op |-> "none", seq |-> 0, sessionId |-> "none",
               props |-> NullProps, changes |-> 0]]

\* The CLI's token storage and the last command run on it.
\*   keytar    import('keytar') succeeds on this machine
\*   keychain  the password of grove-cli/default in the system keychain
\*             (NULL: none)
\*   env       process.env.GROVE_TOKEN (UNDEF: not set)
\*   file      ~/.grove/credentials.json: whether it exists, whether its
\*             content is JSON, and the token property of that JSON
\*   since     what was last done to the storage by the commands: "saved"
\*             saveToken(token) completed, "deleted" logout ran deleteToken;
\*             clean: no keychain or file call of it threw
\*   last      the last call: its name, its token argument, the token it
\*             returned or read, isAuthenticated's answer, and whether the
\*             keychain call and the file call it made succeeded
NoFile == [exists |-> FALSE, json |-> FALSE, token |-> UNDEF]

NoTok ==
    [keytar |-> FALSE, keychain |-> NULL, env |-> UNDEF, file |-> NoFile,
     since |-> [event |-> "none", token |-> NULL, clean |-> TRUE],
     last |-> [op |-> "none", token |-> NULL, result |-> NULL,
               authed |-> FALSE, kcOk |-> FALSE, fileOk |-> FALSE]]

\* The Lattice write tools of one agent.
\*   props    agent.props: whether it is defined, and props.tenants
\*   tool     the tool called last ("none": none yet) and its tenant
\*   request  the request that call sent to the Lattice API, if any
\*   result   what the call returned: "denied", "created", "updated",
\*            "deleted", "http_error" (status not 2xx) or "error" (caught)
NoRequest ==
    [sent |-> FALSE, method |-> "none", tenant |-> "none",
     authorization |-> FALSE]

NoLat ==
    [props |-> [defined |-> FALSE, tenants |-> {}, accessToken |-> FALSE],
     tool |-> "none",
     tenant |-> "none", request |-> NoRequest, result |-> "none"]

\* The SQLite storage of one Durable Object and the migrations run on it.
\*   release  the number of entries of the migrations array of the code
\*            that runs (the array grows by one entry per schema change)
\*   table    whether the _migrations table exists
\*   rows     the versions recorded in _migrations
\*   schema   the versions whose up has run and whose down has not
\*   call     the last call: its op ("runMigrations", "rollbackTo",
\*            "release" or "none"), a bit that flips at every call, the
\*            versions whose up it executed, in order, and whether it
\*            returned (FALSE: an exec threw)
NoMigCall ==
    [op |-> "none", seq |-> 0, applied |-> <<>>, completed |-> TRUE]

NoMig ==
    [release |-> 1, table |-> FALSE, rows |-> {}, schema |-> {},
     call |-> NoMigCall]

RestIdle == d1 = NoD1 /\ tok = NoTok /\ lat = NoLat /\ mig = NoMig

---------------------------------------------------------------------------
\* The state machine

Init ==
    /\ variant \in Variants
    /\ authReq = UndefReq
    /\ authorizeResp = NoAuthResp
    /\ cbReq = NoQuery
    /\ idpLog = NoLog
    /\ completeAuthCall = NoCall
    /\ cbResp = NoResp
    /\ sessions = {}
    /\ login = NoLogin
    /\ mock = NoMock
    /\ RestIdle

\* GET /authorize: an authorization attempt begins.
Authorize ==
    /\ authorizeResp.kind = "none"
    /\ cbResp.kind = "none"
    /\ \E r \in AuthorizeInputs(variant), parseOk \in BOOLEAN :
        /\ parseOk \/ variant # "Heartwood"
        /\ authReq' = IF parseOk THEN r ELSE UndefReq
        /\ authorizeResp' = AuthorizeRoute(variant, parseOk, r)
        /\ UNCHANGED <<variant, cbReq, idpLog, completeAuthCall, cbResp,
                       sessions, login, mock, rest>>

\* The /callback route of the deployed build.
CallbackRoute(v, q, first, second, ext, sessionId) ==
    CASE v = "BetterAuth"   -> handleCallback_BetterAuth(q, first, ext)
      [] v = "CodeExchange" -> handleCallback_CodeExchange(q, first, second, ext)
      [] v = "SessionToken" -> handleCallback_SessionToken(q, first, ext)
      [] v = "Heartwood"    -> handleCallback_Heartwood(q, first, second, ext,
                                                        sessionId)

\* The replies the identity provider can give to a build's fetches.
FirstReplies(v) ==
    CASE v = "BetterAuth"   -> SessionReplies
      [] v = "SessionToken" -> ValidateReplies
      [] OTHER              -> TokenReplies

SecondReplies(v) ==
    IF v \in {"CodeExchange", "Heartwood"} THEN UserReplies ELSE {NoReply}

ExtResults(v) ==
    IF v = "Heartwood" THEN InsertResults ELSE CompleteAuthResults

\* A reply is drawn only for a fetch the run makes, and a result only for
\* the call it makes.
FirstDrawn(v, q) ==
    IF CallbackRoute(v, q, Failure("reject"), NoReply, "throw", 1).log.first
       = NoReply
    THEN {NoReply} ELSE FirstReplies(v)

SecondDrawn(v, q, first) ==
    IF CallbackRoute(v, q, first, Failure("reject"), "throw", 1).log.second
       = NoReply
    THEN {NoReply} ELSE SecondReplies(v)

ExtDrawn(v, q, first, second) ==
    IF \A e \in ExtResults(v) :
          CallbackRoute(v, q, first, second, e, 1)
          = CallbackRoute(v, q, first, second, "throw", 1)
    THEN {"throw"} ELSE ExtResults(v)

\* GET /callback: one run of the callback handler.  Every run is
\* independent of the runs before it; the first callback of each attempt is
\* followed.
Callback ==
    /\ cbResp.kind = "none"
    /\ \E q \in CallbackQueries(variant, authorizeResp) :
       \E first \in FirstDrawn(variant, q) :
       \E second \in SecondDrawn(variant, q, first) :
       \E ext \in ExtDrawn(variant, q, first, second) :
          LET o == CallbackRoute(variant, q, first, second, ext,
                                 Cardinality(sessions) + 1)
          IN  /\ o.row.id # 0 => Cardinality(sessions) < MaxSessions
              /\ cbReq' = q
              /\ cbResp' = o.resp
              /\ completeAuthCall' = o.call
              /\ idpLog' = o.log
              /\ sessions' = IF o.row.id # 0 THEN sessions \cup {o.row}
                             ELSE sessions
              /\ UNCHANGED <<variant, authReq, authorizeResp, login, mock, rest>>

\* The attempt is over.  The handlers keep nothing of it but the rows of
\* oauth_sessions; the next request starts from there.
NextAttempt ==
    /\ cbResp.kind # "none"
    /\ authReq' = UndefReq
    /\ authorizeResp' = NoAuthResp
    /\ cbReq' = NoQuery
    /\ idpLog' = NoLog
    /\ completeAuthCall' = NoCall
    /\ cbResp' = NoResp
    /\ UNCHANGED <<variant, sessions, login, mock, rest>>

Next ==
    \/ Authorize
    \/ Callback
    \/ NextAttempt

Spec == Init /\ [][Next]_<<vars, login, mock, rest>>

---------------------------------------------------------------------------
\* Vocabulary of the properties

\* The callback handler has run in this attempt.
Done == cbResp.kind # "none"

\* The text is serialized data of the kind the build's /authorize writes:
\* base64 of JSON text in the BetterAuth build, JSON text in the others.
ValidSerialized(v, t) ==
    /\ t.form = "json"
    /\ t.enc = (IF v = "BetterAuth" THEN "b64" ELSE "plain")

\* The text holds the { oauthReq } structure.
HoldsOauthReq(t) == t.val.kind = "object" /\ t.val.oauthReq.defined

\* The reply in which the identity provider names the user.
UserReply == IF variant \in {"CodeExchange", "Heartwood"}
             THEN idpLog.second ELSE idpLog.first

\* The identity provider confirmed an authenticated user.
IdentityConfirmed ==
    /\ UserReply.kind = "ok"
    /\ UserReply.userId # UNDEF
    /\ variant = "BetterAuth" => UserReply.token # UNDEF
    /\ variant = "SessionToken" => UserReply.valid

\* A structured JSON error: { error, error_description } with an error status.
IsJsonError(r) == r.kind = "json" /\ r.status >= 400 /\ r.error # NULL

\* The callback answers the attempt that /authorize began.
SameAttempt ==
    /\ authorizeResp.kind = "redirect"
    /\ Done
    /\ TruthyText(cbReq.state)
    /\ cbReq.state = authorizeResp.state

---------------------------------------------------------------------------
\* C1: in the BetterAuth build every run of /callback either completes the
\* grant (completeAuth invoked, then a 302 to its redirectTo) after the
\* state has deserialized and the identity provider has confirmed a user,
\* or answers a structured JSON error without invoking completeAuth.
\* Violated: a rejected fetch, an unparseable session body, a state of null
\* and a throwing completeAuth end the run without any response.
C1_GrantOrJsonError ==
    (variant = "BetterAuth" /\ Done) =>
        \/ /\ completeAuthCall.called
           /\ cbResp.kind = "redirect" /\ cbResp.status = 302
           /\ cbResp.location = completeAuthCall.redirectTo
           /\ ValidSerialized(variant, cbReq.state)
           /\ IdentityConfirmed
        \/ /\ ~completeAuthCall.called
           /\ IsJsonError(cbResp)

---------------------------------------------------------------------------
\* C2 as stated: a /callback request without a state parameter is answered
\* 400 missing_state whatever else it carries (BetterAuth and CodeExchange
\* builds).
C2_Original ==
    (variant \in {"BetterAuth", "CodeExchange"} /\ Done
        /\ cbReq.state.form = "absent") =>
        /\ cbResp.kind = "json" /\ cbResp.status = 400
        /\ cbResp.error = "missing_state"

\* C2 as amended: a /callback request with no state parameter, or an empty
\* one, and no non-empty error parameter (and, in the CodeExchange build,
\* with a non-empty code) is answered 400 missing_state by the BetterAuth,
\* CodeExchange and SessionToken builds, whatever else it carries.
C2_MissingState ==
    (/\ variant # "Heartwood" /\ Done
     /\ ~(cbReq.state.form = "json")
     /\ cbReq.state.form = "raw" => cbReq.state.raw = ""
     /\ cbReq.error \in {NULL, ""}
     /\ variant = "CodeExchange" => cbReq.code \notin {NULL, ""}) =>
        /\ cbResp.kind = "json" /\ cbResp.status = 400
        /\ cbResp.error = "missing_state"
        /\ ~completeAuthCall.called
        /\ idpLog = NoLog

\* C2's case: a request with other parameters and no state is answered
\* missing_state.
C2_Witness ==
    /\ variant = "BetterAuth" /\ Done
    /\ cbReq.state.form = "absent"
    /\ cbReq.user_id # NULL /\ cbReq.error_description # NULL
    /\ cbResp.error = "missing_state"

---------------------------------------------------------------------------
\* C3 as stated: a /callback request whose state is present but is not
\* valid serialized data is answered 400 invalid_state (BetterAuth and
\* SessionToken builds).
C3_Original ==
    (variant \in {"BetterAuth", "SessionToken"} /\ Done
        /\ cbReq.state.form # "absent"
        /\ ~ValidSerialized(variant, cbReq.state)) =>
        /\ cbResp.kind = "json" /\ cbResp.status = 400
        /\ cbResp.error = "invalid_state"

\* C3 as amended: a /callback request whose state is non-empty and is not
\* valid serialized data, and that carries no non-empty error parameter
\* (and, in the CodeExchange build, carries a non-empty code), is answered
\* 400 invalid_state by the BetterAuth, CodeExchange and SessionToken
\* builds, before any request to the identity provider.
C3_InvalidState ==
    (/\ variant # "Heartwood" /\ Done
     /\ cbReq.state.form # "absent"
     /\ cbReq.state.form = "raw" => cbReq.state.raw # ""
     /\ ~ValidSerialized(variant, cbReq.state)
     /\ cbReq.error \in {NULL, ""}
     /\ variant = "CodeExchange" => cbReq.code \notin {NULL, ""}) =>
        /\ cbResp.kind = "json" /\ cbResp.status = 400
        /\ cbResp.error = "invalid_state"
        /\ ~completeAuthCall.called
        /\ idpLog = NoLog

\* C3's case: base64 text that decodes to no JSON is answered
\* invalid_state.
C3_Witness ==
    /\ variant = "BetterAuth" /\ Done
    /\ cbReq.state = RawText("abcd")
    /\ cbResp.error = "invalid_state"

---------------------------------------------------------------------------
\* C4: in the BetterAuth build a /callback whose state parses but does not
\* hold the { oauthReq } structure is rejected (no redirect: an error
\* response, or the runtime's error for a run that throws), and completeAuth
\* is not invoked for it.
\* Violated: for a state of {} or of a number, completeAuth is invoked with
\* request undefined and its redirectTo is redirected to.
C4_ForeignStateRejected ==
    (/\ variant = "BetterAuth" /\ Done
     /\ ValidSerialized(variant, cbReq.state)
     /\ ~HoldsOauthReq(cbReq.state)) =>
        /\ ~completeAuthCall.called
        /\ cbResp.kind \in {"json", "exception"}

---------------------------------------------------------------------------
---------------------------------------------------------------------------
\* The upstream request the callback would recover from a state value.
Recovered(v, t) ==
    IF v = "BetterAuth" THEN parseState_BetterAuth(t)
    ELSE parseState_Json(t)

\* C6: for every /authorize request with a client_id, handleAuthorize
\* returns a 302 whose state, deserialized the way handleCallback does,
\* yields the original client id, scope and redirect URI, and the request
\* handed to completeAuth in the same attempt is the original request
\* (BetterAuth and SessionToken builds).
\* Violated: in the BetterAuth build btoa throws on a request holding a
\* character above U+00FF, and no 302 is returned.
C6_StateRoundTrip ==
    (/\ variant \in {"BetterAuth", "SessionToken"}
     /\ authorizeResp.kind # "none"
     /\ authReq.defined /\ authReq.clientId \notin {NULL, UNDEF, ""}) =>
        /\ authorizeResp.kind = "redirect" /\ authorizeResp.status = 302
        /\ Recovered(variant, authorizeResp.state).ok
        /\ LET back == Recovered(variant, authorizeResp.state).v.oauthReq
           IN  /\ back.clientId = authReq.clientId
               /\ back.scope = authReq.scope
               /\ back.redirectUri = authReq.redirectUri
        /\ (SameAttempt /\ completeAuthCall.called) =>
              completeAuthCall.request = authReq

---------------------------------------------------------------------------
\* C7: on every granted callback the userId and email passed to
\* completeAuth, or stored in the session row, are the values of the
\* identity provider's own reply.
\* Violated: the SessionToken build passes the query's user_id and email.
C7_IdentityFromProvider ==
    /\ (Done /\ completeAuthCall.called) =>
          /\ completeAuthCall.userId = UserReply.userId
          /\ completeAuthCall.propsUserId = UserReply.userId
          /\ completeAuthCall.metadataEmail = UserReply.email
          /\ completeAuthCall.propsEmail = UserReply.email
    /\ (Done /\ cbResp.session_id # 0) =>
          \E row \in sessions :
              /\ row.id = cbResp.session_id
              /\ row.user_id = UserReply.userId
              /\ row.email = UserReply.email

---------------------------------------------------------------------------
\* The identity provider answered a fetch of this callback with a non-2xx
\* status.
Non2xx == idpLog.first.kind = "http_error" \/ idpLog.second.kind = "http_error"

---------------------------------------------------------------------------
\* A fetch of this callback failed at the network level, or its body could
\* not be parsed.
FetchBroke ==
    \/ idpLog.first.kind \in {"reject", "bad_body"}
    \/ idpLog.second.kind \in {"reject", "bad_body"}

\* C9: if a request to the identity provider rejects or returns a body that
\* cannot be parsed, the handler still returns a structured JSON error with
\* a dependency-failure status (BetterAuth and Heartwood builds).
\* Violated: the BetterAuth build awaits fetch and json() outside any try
\* block, so the handler's promise rejects.
C9_FetchFailureCaught ==
    (variant \in {"BetterAuth", "Heartwood"} /\ Done /\ FetchBroke) =>
        /\ cbResp.kind = "json"
        /\ cbResp.status \in {500, 502}
        /\ cbResp.error # NULL

---------------------------------------------------------------------------
\* C10: no authorization attempt forwards the upstream client's PKCE
\* code_challenge to the identity provider in /authorize and then exchanges
\* the returned code in /callback without a code_verifier.
\* Violated: the CodeExchange and Heartwood builds do both.
C10_OnePkceModel ==
    ~ ( /\ SameAttempt
        /\ authorizeResp.code_challenge \notin {NULL, UNDEF, ""}
        /\ idpLog.tokenBody.sent
        /\ idpLog.tokenBody.grant_type = "authorization_code"
        /\ idpLog.tokenBody.code_verifier = UNDEF )

---------------------------------------------------------------------------
\* grove login: device code flow (RFC 8628)

DEFAULT_POLL_INTERVAL == 5
MAX_POLL_TIME == 900

\* a || b on numbers; 0 also stands for a missing property
OrElseNum(a, b) == IF a # 0 THEN a ELSE b

\* Math.min(a, b)
Min(a, b) == IF a < b THEN a ELSE b

\* The device-code response: interval and expires_in, in seconds.
DeviceIntervals == {0, 5}
ExpiresIns      == {30, 1800}

\* The interval of a slow_down reply (0: the reply carries none).
SlowDownIntervals == {0, 10}

\* Seconds a pollDeviceCode call takes.
PollLatencies == {0, 5}

\* The HTTP response of POST /token:
\*   ok       the status is 2xx
\*   error    the body's error property ("none": the body has none)
\*   interval the body's interval property
\*   token    the body's access_token ("none": the body has none)
\*   broken   the fetch rejects or the body is no JSON
PollResponse(ok, error, interval, token, broken) ==
    [ok |-> ok, error |-> error, interval |-> interval, token |-> token,
     broken |-> broken]

DeviceCodeErrors ==
    {"authorization_pending", "access_denied", "expired_token",
     "invalid_grant", "unsupported_grant_type"}

PollResponses ==
    { PollResponse(FALSE, e, 0, "none", FALSE) : e \in DeviceCodeErrors }
    \cup { PollResponse(FALSE, "slow_down", i, "none", FALSE) :
             i \in SlowDownIntervals }
    \cup { PollResponse(TRUE, "none", 0, "mock-access-token-xyz", FALSE),
           PollResponse(FALSE, "none", 0, "none", FALSE),
           PollResponse(FALSE, "none", 0, "none", TRUE) }

\* The result of HeartWoodClient.pollDeviceCode: the body, or a throw.
PollThrows == [threw |-> TRUE, error |-> "none", interval |-> 0,
               token |-> "none"]

pollDeviceCode(response) ==
    IF response.broken THEN PollThrows
    ELSE IF ~response.ok /\ response.error = "none" THEN PollThrows
    ELSE [threw |-> FALSE, error |-> response.error,
          interval |-> response.interval, token |-> response.token]

\* What a poll returned: "throw", the error, or "token" for a token payload.
ReplyKind(result) ==
    IF result.threw THEN "throw"
    ELSE IF result.error # "none" THEN result.error
    ELSE "token"

\* A faulty type guard that takes every result for a token payload.
isDeviceCodeError_Never(result) == FALSE

\* 'error' in response
isDeviceCodeError(result) == result.error # "none"

\* case 'slow_down': pollInterval = result.interval || pollInterval + 5
slowDownInterval(result, pollInterval) ==
    OrElseNum(result.interval, pollInterval + 5)

\* A faulty loop that polls without waiting.
sleep_Skipped(pollInterval) == 0

\* await sleep(pollInterval * 1000): the seconds the loop waits
sleep(pollInterval) == IF pollInterval > 0 THEN pollInterval ELSE 0

\* while (Date.now() - startTime < maxTime)
loopCondition(l) == l.now - l.startTime < l.maxTime

\* saveToken: the keychain when it takes the password, else the
\* credentials file; "throw" when the file cannot be written.
SaveResults == {"keychain", "file", "throw"}

\* getUserInfo: a user, null, or a throw.
UserInfoResults == {"user", "null", "throw"}

\* A faulty switch that lacks the access_denied and expired_token cases.
returnsOnError_InvalidGrantOnly(error) == error = "invalid_grant"

\* The cases of the switch that report the error and return.
returnsOnError(error) ==
    error \in {"access_denied", "expired_token", "invalid_grant"}

\* The body of the try block: what the loop does with a poll's result.
handleResult(l, result, save, userInfo) ==
    IF result.threw
    THEN [l EXCEPT !.pc = "done", !.outcome = "network_error"]
    ELSE IF isDeviceCodeError(result)
    THEN CASE result.error = "authorization_pending" ->
                [l EXCEPT !.pc = "test"]
           [] result.error = "slow_down" ->
                [l EXCEPT !.pc = "test",
                          !.pollInterval =
                              slowDownInterval(result, l.pollInterval)]
           [] returnsOnError(result.error) ->
                [l EXCEPT !.pc = "done", !.outcome = result.error]
           [] OTHER ->
                [l EXCEPT !.pc = "test"]
    ELSE IF save = "throw"
    THEN [l EXCEPT !.pc = "done", !.saveCalled = TRUE,
                   !.outcome = "network_error"]
    ELSE IF userInfo = "throw"
    THEN [l EXCEPT !.pc = "done", !.saveCalled = TRUE, !.saved = save,
                   !.outcome = "network_error"]
    ELSE [l EXCEPT !.pc = "done", !.saveCalled = TRUE, !.saved = save,
                   !.outcome = "success"]

\* The OAuth handlers take no part in a run of the command.
OAuthIdle ==
    /\ variant = "BetterAuth"
    /\ authReq = UndefReq
    /\ authorizeResp = NoAuthResp
    /\ cbReq = NoQuery
    /\ idpLog = NoLog
    /\ completeAuthCall = NoCall
    /\ cbResp = NoResp
    /\ sessions = {}

LoginInit ==
    /\ OAuthIdle
    /\ mock = NoMock
    /\ RestIdle
    /\ login = [NoLogin EXCEPT !.pc = "start"]

\* Step 1: client.requestDeviceCode(CLIENT_ID), then the variables of the
\* loop are set up.
RequestDeviceCode ==
    /\ login.pc = "start"
    /\ \/ login' = [login EXCEPT !.pc = "done",
                                 !.outcome = "device_code_request_failed"]
       \/ \E interval \in DeviceIntervals, expires_in \in ExpiresIns :
             login' = [login EXCEPT
                 !.pc = "test",
                 !.pollInterval = OrElseNum(interval, DEFAULT_POLL_INTERVAL),
                 !.startTime = login.now,
                 !.prevPollAt = login.now,
                 !.lastPollAt = login.now,
                 !.maxTime = Min(expires_in, MAX_POLL_TIME)]
    /\ UNCHANGED <<vars, mock, rest>>

\* The loop condition: enter the body, or fall out to the timeout report.
LoopTest ==
    /\ login.pc = "test"
    /\ login' = IF loopCondition(login)
                THEN [login EXCEPT !.pc = "sleep"]
                ELSE [login EXCEPT !.pc = "done", !.outcome = "timeout"]
    /\ UNCHANGED <<vars, mock, rest>>

\* await sleep(pollInterval * 1000)
Sleep ==
    /\ login.pc = "sleep"
    /\ login' = [login EXCEPT !.pc = "poll",
                              !.now = login.now + sleep(login.pollInterval)]
    /\ UNCHANGED <<vars, mock, rest>>

\* client.pollDeviceCode(device_code, CLIENT_ID) and the rest of the try
\* block.
Poll ==
    /\ login.pc = "poll"
    /\ \E response \in PollResponses, d \in PollLatencies,
          save \in SaveResults, userInfo \in UserInfoResults :
          LET result == pollDeviceCode(response)
              granted == ~result.threw /\ ~isDeviceCodeError(result)
              issued == [login EXCEPT
                            !.polled = TRUE,
                            !.lastReply = ReplyKind(result),
                            !.prevPollAt = login.lastPollAt,
                            !.lastPollAt = login.now,
                            !.intervalAtPoll = login.pollInterval,
                            !.quiet = /\ login.quiet
                                      /\ ~result.threw
                                      /\ result.error \in
                                           {"authorization_pending",
                                            "slow_down"},
                            !.now = login.now + d]
          IN  /\ granted \/ (save = "throw" /\ userInfo = "throw")
              /\ (granted /\ save = "throw") => userInfo = "throw"
              /\ login' = handleResult(issued, result, save, userInfo)
    /\ UNCHANGED <<vars, mock, rest>>

LoginNext ==
    \/ RequestDeviceCode
    \/ LoopTest
    \/ Sleep
    \/ Poll

LoginSpec == LoginInit /\ [][LoginNext]_<<vars, login, mock, rest>>

---------------------------------------------------------------------------
\* Seconds between the start of polling and the last poll.
ElapsedAtPoll == login.lastPollAt - login.startTime

\* C11: while the server returns only authorization_pending or slow_down,
\* no poll is issued after min(expires_in, 900) seconds have elapsed since
\* polling began, and the loop body is not entered once they have.
\* Violated: the loop tests the ceiling before it sleeps, so the poll that
\* follows the sleep is issued up to one interval after the ceiling.
C11_NoPollAfterCeiling ==
    /\ (login.polled /\ login.quiet) => ElapsedAtPoll <= login.maxTime
    /\ login.pc = "sleep" => login.now - login.startTime < login.maxTime

---------------------------------------------------------------------------
\* C12: after a poll returns slow_down the loop goes on (it ends only by
\* the ceiling), and the interval it waits before the next poll is strictly
\* greater than the interval in use before that poll, whatever interval the
\* slow_down reply carries.
\* Violated: the loop takes the reply's interval as it is, also when it is
\* not greater than the one in use (a second slow_down with interval 10).
C12_SlowDownIncreases ==
    login.lastReply = "slow_down" =>
        /\ login.pollInterval > login.intervalAtPoll
        /\ login.pc = "done" => login.outcome = "timeout"

---------------------------------------------------------------------------
\* C13: two consecutive polls are never issued less than the interval in
\* effect apart, and the first poll is issued one full interval after
\* polling began (prevPollAt is startTime for the first poll).
C13_PollSpacing ==
    login.polled =>
        login.lastPollAt - login.prevPollAt >= login.intervalAtPoll

\* C13's case: a poll issued after a slow_down raised the interval from 5
\* to 10 seconds follows the poll before it by 10 seconds.
C13_Witness ==
    /\ login.polled
    /\ login.prevPollAt > login.startTime
    /\ login.intervalAtPoll = 10
    /\ login.lastPollAt - login.prevPollAt = 10

---------------------------------------------------------------------------
\* C14: when a poll returns access_denied or expired_token the command
\* reports that error and returns, and nothing runs after it has returned:
\* no further poll is issued.
C14_TerminalErrorStops ==
    /\ [](login.lastReply \in {"access_denied", "expired_token"} =>
            /\ login.pc = "done"
            /\ login.outcome = login.lastReply
            /\ ~login.saveCalled)
    /\ [][login.pc # "done"]_<<vars, login, mock, rest>>

\* C14's case: the second poll returns expired_token and the command has
\* returned.
C14_Witness ==
    /\ login.lastReply = "expired_token"
    /\ login.prevPollAt > login.startTime
    /\ login.pc = "done"
    /\ login.outcome = "expired_token"

---------------------------------------------------------------------------
---------------------------------------------------------------------------
\* The mock Heartwood server (tests/mocks/heartwood-mock.ts)

\* Bounds on poll_count and on the polls in flight at once.
MaxPolls == 4
MaxInflight == 3

MockUserIds == {"user-123", "user-456"}

\* The entry of MOCK_DEVICE_CODE in mockDeviceCodes.
MockEntry(status, user_id, poll_count) ==
    [status |-> status, user_id |-> user_id, poll_count |-> poll_count]

\* createMockDeviceCodeResponse: mockDeviceCodes.set(device_code, {...})
createMockDeviceCodeResponse(code) == MockEntry("pending", "none", 0)

\* authorizeDeviceCode, denyDeviceCode, expireDeviceCode: if (code) {...}
authorizeDeviceCode(code, userId) ==
    IF code.status # "none"
    THEN [code EXCEPT !.status = "authorized", !.user_id = userId]
    ELSE code

denyDeviceCode(code) ==
    IF code.status # "none" THEN [code EXCEPT !.status = "denied"] ELSE code

expireDeviceCode(code) ==
    IF code.status # "none" THEN [code EXCEPT !.status = "expired"] ELSE code

\* A faulty poll response that answers slow_down to a repeated poll of a
\* pending code.
getMockPollResponse_SlowDown(code) ==
    CASE code.status = "none"       -> "invalid_grant"
      [] code.status = "authorized" -> "token"
      [] code.status = "denied"     -> "access_denied"
      [] code.status = "expired"    -> "expired_token"
      [] OTHER -> IF code.poll_count > 0 THEN "slow_down"
                  ELSE "authorization_pending"

\* getMockPollResponse: the result of a poll, by the entry's status.
getMockPollResponse(code) ==
    CASE code.status = "none"       -> "invalid_grant"
      [] code.status = "authorized" -> "token"
      [] code.status = "denied"     -> "access_denied"
      [] code.status = "expired"    -> "expired_token"
      [] OTHER                      -> "authorization_pending"

\* The entry as the state holds it.
MockCode == MockEntry(mock.status, mock.user_id, mock.poll_count)

\* The state with the entry replaced; the entry's history goes on.
WithCode(code) ==
    [mock EXCEPT !.status = code.status, !.user_id = code.user_id,
                 !.poll_count = code.poll_count,
                 !.first = IF mock.first = "none"
                                /\ code.status \notin {"none", "pending"}
                             THEN code.status ELSE mock.first]

LoginIdle == login = NoLogin

MockInit ==
    /\ OAuthIdle
    /\ LoginIdle
    /\ RestIdle
    /\ mock = NoMock

\* POST /auth/device-code: a device code is created; an entry of the same
\* code is replaced and begins anew.
CreateDeviceCode ==
    /\ mock' = [WithCode(createMockDeviceCodeResponse(MockCode))
                   EXCEPT !.first = "none"]
    /\ UNCHANGED <<vars, login, rest>>

AuthorizeDeviceCode ==
    /\ \E userId \in MockUserIds :
          mock' = WithCode(authorizeDeviceCode(MockCode, userId))
    /\ UNCHANGED <<vars, login, rest>>

DenyDeviceCode ==
    /\ mock' = WithCode(denyDeviceCode(MockCode))
    /\ UNCHANGED <<vars, login, rest>>

ExpireDeviceCode ==
    /\ mock' = WithCode(expireDeviceCode(MockCode))
    /\ UNCHANGED <<vars, login, rest>>

\* resetMockState: mockDeviceCodes.clear()
ResetMockState ==
    /\ mock.status # "none"
    /\ mock' = [mock EXCEPT !.status = "none", !.user_id = "none",
                            !.poll_count = 0, !.first = "none"]
    /\ UNCHANGED <<vars, login, rest>>

\* A caller's fetch of POST /token: the mock answers when it is called
\* (poll_count++ and the response by the status); the caller receives the
\* result later.
IssuePoll ==
    /\ Len(mock.inflight) < MaxInflight
    /\ mock.poll_count < MaxPolls
    /\ LET counted == IF mock.status = "none" THEN MockCode
                      ELSE [MockCode EXCEPT !.poll_count = @ + 1]
       IN  mock' = [WithCode(counted) EXCEPT
                       !.inflight = Append(mock.inflight,
                           [at |-> mock.status, first |-> mock.first,
                            result |-> getMockPollResponse(MockCode)])]
    /\ UNCHANGED <<vars, login, rest>>

\* await response.json() resolves: a caller receives its poll's result.
DeliverPoll ==
    /\ mock.inflight # <<>>
    /\ mock' = [mock EXCEPT !.inflight = Tail(mock.inflight)]
    /\ UNCHANGED <<vars, login, rest>>

MockNext ==
    \/ CreateDeviceCode
    \/ AuthorizeDeviceCode
    \/ DenyDeviceCode
    \/ ExpireDeviceCode
    \/ ResetMockState
    \/ IssuePoll
    \/ DeliverPoll

MockSpec == MockInit /\ [][MockNext]_<<vars, login, mock, rest>>

---------------------------------------------------------------------------
\* The polls in flight.
Inflight == {mock.inflight[i] : i \in 1..Len(mock.inflight)}

\* C16: every poll issued while the device code is pending returns
\* authorization_pending, and every poll issued after the code became
\* authorized returns the token payload.
\* Violated: the code is denied (or expired) after it was authorized, and
\* the polls that follow return access_denied (expired_token).
C16_PendingThenToken ==
    \A r \in Inflight :
        /\ r.at = "pending" => r.result = "authorization_pending"
        /\ r.first = "authorized" => r.result = "token"

\* C17: once the device code has become denied or expired, every later
\* poll for it returns access_denied or expired_token respectively, under
\* any later sequence of server operations.
\* Violated: the code is authorized after it was denied, and the polls
\* that follow return the token payload.
C17_TerminalErrorStable ==
    \A r \in Inflight :
        /\ r.first = "denied" => r.result = "access_denied"
        /\ r.first = "expired" => r.result = "expired_token"

\* C18: once the status of a device code is authorized, denied or expired,
\* no authorize, deny or expire attempt changes it (a step that creates the
\* code anew or clears the map aside).
\* Violated: denyDeviceCode sets denied on an authorized code.
C18_StatusDecidedOnce ==
    [][(/\ mock.status \in {"authorized", "denied", "expired"}
        /\ mock'.status \notin {"none", "pending"}) =>
            mock'.status = mock.status]_<<vars, login, mock, rest>>

\* C19: all polls issued for a pending device code, any number of them in
\* flight at once, return authorization_pending, and a poll changes
\* neither the status nor the user of the code.
C19_ConcurrentPolls ==
    /\ [](\A r \in Inflight :
            r.at = "pending" => r.result = "authorization_pending")
    /\ [][mock'.inflight # mock.inflight =>
            /\ mock'.status = mock.status
            /\ mock'.user_id = mock.user_id]_<<vars, login, mock, rest>>

\* C19's case: as many polls as can be in flight were issued for the
\* pending code, none of them received yet.
C19_Witness ==
    /\ mock.status = "pending"
    /\ Len(mock.inflight) = MaxInflight
    /\ mock.poll_count = MaxInflight
    /\ \A r \in Inflight :
          r.at = "pending" /\ r.result = "authorization_pending"

---------------------------------------------------------------------------
\* C20: a run of HeartwoodHandler.handleCallback in which the token
\* exchange and the session validation both succeed inserts exactly one row
\* into oauth_sessions and redirects with its id (or, when the INSERT
\* itself fails, inserts none and answers internal_error); every other run
\* inserts no row.
C20_OneSessionPerSuccess ==
    [][(variant = "Heartwood" /\ cbResp.kind = "none"
                              /\ cbResp'.kind # "none") =>
          IF idpLog'.first.kind = "ok" /\ idpLog'.second.kind = "ok"
          THEN \/ /\ cbResp'.kind = "redirect"
                  /\ Cardinality(sessions') = Cardinality(sessions) + 1
                  /\ sessions \subseteq sessions'
                  /\ \A row \in sessions' \ sessions :
                        row.id = cbResp'.session_id
               \/ /\ cbResp' = InternalError
                  /\ sessions' = sessions
          ELSE /\ sessions' = sessions
               /\ cbResp'.kind # "redirect"
               /\ cbResp'.session_id = 0]_<<vars, login, mock, rest>>

\* C20's case: a second successful authentication has stored a second row.
C20_Witness ==
    /\ variant = "Heartwood"
    /\ cbResp.kind = "redirect"
    /\ cbResp.session_id = 2
    /\ Cardinality(sessions) = 2
    /\ idpLog.first.kind = "ok" /\ idpLog.second.kind = "ok"

---------------------------------------------------------------------------
\* The session store of the Heartwood build: oauth_sessions is written by
\* the callback's INSERT and by the UPDATE of POST /token, read by
\* getAuthPropsFromSession and swept by cleanupExpiredSessions.  Date.now()
\* advances in steps of one second (1000 ms).

\* Bounds: the clock, the token responses Heartwood issues for one grant,
\* and the POST /token requests handled at once.
MaxNow == 2000

MaxIssued == 3

MaxRequests == 2

\* The ids crypto.randomUUID() gives to sessions, and the expires_in
\* (seconds) of Heartwood's token responses.
SessionIds == {"s1", "s2"}

TokenLifetimes == {1, 2}

\* The users Heartwood's /session/validate names.
SessionUsers == {"u_alice", "u_bob"}

\* A token response of Heartwood: { access_token, refresh_token, expires_in }
\* (refresh_token NoToken: the response carries none).
Tokens(access, refresh, expiresIn) ==
    [access_token |-> access, refresh_token |-> refresh,
     expires_in |-> expiresIn]

\* The row the callback stores: refresh_token is tokens.refresh_token || null
\* and expires_at is Date.now() + tokens.expires_in * 1000.
sessionRow(user, tokens, now) ==
    [present |-> TRUE,
     user_id |-> user,
     refresh_token |-> IF tokens.refresh_token # NoToken
                       THEN tokens.refresh_token ELSE NoToken,
     access_token |-> tokens.access_token,
     expires_at |-> now + tokens.expires_in * 1000]

\* A faulty getAuthPropsFromSession that does not look at expires_at.
getAuthPropsFromSession_NoExpiry(session, now) ==
    IF ~session.present THEN NullProps
    ELSE [isNull |-> FALSE, userId |-> session.user_id,
          accessToken |-> session.access_token,
          refreshToken |-> session.refresh_token]

\* getAuthPropsFromSession, from the row .first() resolved with (session)
\* and Date.now() at the comparison.
getAuthPropsFromSession(session, now) ==
    IF ~session.present THEN NullProps
    ELSE IF session.expires_at < now THEN NullProps
    ELSE [isNull |-> FALSE, userId |-> session.user_id,
          accessToken |-> session.access_token,
          refreshToken |-> session.refresh_token]

\* A faulty sweep that also deletes the sessions expiring at this instant.
cleanupExpiredSessions_Inclusive(rows, now) ==
    LET expired == { s \in DOMAIN rows :
                        rows[s].present /\ rows[s].expires_at <= now }
    IN  [rows |-> [s \in DOMAIN rows |->
                      IF s \in expired THEN AbsentRow ELSE rows[s]],
         changes |-> Cardinality(expired)]

\* cleanupExpiredSessions: DELETE FROM oauth_sessions WHERE expires_at < ?
\* bound to (now); returns result.meta.changes || 0.
cleanupExpiredSessions(rows, now) ==
    LET expired == { s \in DOMAIN rows :
                        rows[s].present /\ rows[s].expires_at < now }
    IN  [rows |-> [s \in DOMAIN rows |->
                      IF s \in expired THEN AbsentRow ELSE rows[s]],
         changes |-> Cardinality(expired)]

\* The bodies of POST /token: request.json() throws (ok FALSE), or gives
\* { refresh_token, session_id }, each possibly missing.  A refresh token in
\* the body is one Heartwood issued for some grant.
TokenBodies ==
    { [ok |-> FALSE, refresh_token |-> NoToken, session_id |-> "none",
       grant |-> "none"] }
    \cup { [ok |-> TRUE, refresh_token |-> NoToken, session_id |-> sid,
            grant |-> sid] : sid \in SessionIds \cup {"none"} }
    \cup { [ok |-> TRUE, refresh_token |-> rt, grant |-> g,
            session_id |-> IF named THEN g ELSE "none"] :
              rt \in 1..MaxIssued, g \in SessionIds, named \in BOOLEAN }

\* handleToken up to the check of refreshToken: the body's refresh token,
\* or else the refresh_token of the row of body.session_id.
lookupRefreshToken(body, rows) ==
    IF body.refresh_token # NoToken THEN body.refresh_token
    ELSE IF body.session_id # "none" /\ rows[body.session_id].present
              /\ rows[body.session_id].refresh_token # NoToken
    THEN rows[body.session_id].refresh_token
    ELSE NoToken

\* Heartwood's answers to grant_type=refresh_token with (token) of a grant:
\* the fetch rejects, the status is not 2xx, the body is not JSON, or, for
\* a refresh token the grant still accepts, new tokens: with a new refresh
\* token that replaces the one presented, or with none.
RefreshReplies(grant, token) ==
    { [kind |-> k, tokens |-> FreeReq.tokens, valid |-> grant.valid,
       issued |-> grant.issued] : k \in {"reject", "http_error", "bad_body"} }
    \cup
    IF token \in grant.valid /\ grant.issued < MaxIssued
    THEN { [kind |-> "ok",
            tokens |-> Tokens(grant.issued + 1,
                              IF rotate THEN grant.issued + 1 ELSE NoToken,
                              life),
            valid |-> IF rotate
                      THEN (grant.valid \ {token}) \cup {grant.issued + 1}
                      ELSE grant.valid,
            issued |-> grant.issued + 1] :
              rotate \in BOOLEAN, life \in TokenLifetimes }
    ELSE {}

\* The UPDATE of handleToken on the row (session), made at (now) by a
\* request holding (refreshToken) and the token response (tokens).
updateSession(session, tokens, refreshToken, now) ==
    IF ~session.present THEN session
    ELSE [present |-> TRUE,
          user_id |-> session.user_id,
          access_token |-> tokens.access_token,
          refresh_token |-> IF tokens.refresh_token # NoToken
                            THEN tokens.refresh_token ELSE refreshToken,
          expires_at |-> now + tokens.expires_in * 1000]

\* The refresh tokens sent to clients, after a 200 response carrying the
\* refresh_token of (tokens).
Sent(sent, tokens) ==
    IF tokens.refresh_token # NoToken
    THEN sent \cup {tokens.refresh_token} ELSE sent

\* The state machine of the session store, for the sessions (ids) and
\* with room for (slots) POST /token requests at once.
SessionStore(ids, slots) ==
    [NoD1 EXCEPT !.rows = [s \in ids |-> AbsentRow],
                 !.idp = [s \in ids |->
                             [issued |-> 0, valid |-> {}, sent |-> {}]],
                 !.reqs = [i \in 1..slots |-> FreeReq]]

SessionInit ==
    /\ OAuthIdle
    /\ LoginIdle
    /\ mock = NoMock
    /\ tok = NoTok /\ lat = NoLat /\ mig = NoMig
    /\ d1 = SessionStore(SessionIds, 0)

\* A second passes.
Tick ==
    /\ d1.now < MaxNow
    /\ d1' = [d1 EXCEPT !.now = @ + 1000]
    /\ UNCHANGED <<vars, login, mock, tok, lat, mig>>

\* A callback succeeds: Heartwood issues the first tokens of a grant and the
\* handler inserts the row under a new id.
StoreSession ==
    \E s \in DOMAIN d1.rows, user \in SessionUsers,
       withRefresh \in BOOLEAN, life \in TokenLifetimes :
        /\ d1.idp[s].issued = 0
        /\ d1' = [d1 EXCEPT
                    !.rows[s] = sessionRow(
                        user,
                        Tokens(1, IF withRefresh THEN 1 ELSE NoToken, life),
                        d1.now),
                    !.idp[s] = [issued |-> 1, sent |-> {},
                                valid |-> IF withRefresh THEN {1} ELSE {}]]
        /\ UNCHANGED <<vars, login, mock, tok, lat, mig>>

\* POST /token arrives: the body is parsed and the refresh token found, or
\* the request is answered 500 (no JSON body) or 400 (no refresh token).
TokenBegin ==
    \E i \in DOMAIN d1.reqs, body \in TokenBodies :
        /\ body.grant \in DOMAIN d1.rows \cup {"none"}
        /\ body.refresh_token # NoToken =>
              body.refresh_token \in d1.idp[body.grant].sent
        /\ body.session_id \in DOMAIN d1.rows \cup {"none"}
        /\ d1.reqs[i].pc = "free"
        /\ \A j \in 1..(i - 1) : d1.reqs[j].pc # "free"
        /\ LET refreshToken == lookupRefreshToken(body, d1.rows)
           IN  d1' = IF ~body.ok \/ refreshToken = NoToken THEN d1
                     ELSE [d1 EXCEPT !.reqs[i] =
                              [FreeReq EXCEPT !.pc = "fetch",
                                              !.session_id = body.session_id,
                                              !.grant = body.grant,
                                              !.refreshToken = refreshToken]]
        /\ UNCHANGED <<vars, login, mock, tok, lat, mig>>

\* Heartwood answers the request's fetch: the handler answers 500 when the
\* fetch or the body fails and 401 when the status is not 2xx; otherwise it
\* goes on to the UPDATE when the body named a session, and answers 200
\* when not.
TokenFetch ==
    \E i \in DOMAIN d1.reqs :
        /\ d1.reqs[i].pc = "fetch"
        /\ LET r == d1.reqs[i]
           IN  \E reply \in RefreshReplies(d1.idp[r.grant], r.refreshToken) :
                d1' = IF reply.kind \in {"reject", "bad_body"}
                         \/ ~ResponseOk(reply)
                      THEN [d1 EXCEPT !.reqs[i] = FreeReq]
                      ELSE IF r.session_id = "none"
                      THEN [d1 EXCEPT !.reqs[i] = FreeReq,
                                      !.idp[r.grant] =
                                          [issued |-> reply.issued,
                                           valid |-> reply.valid,
                                           sent |-> Sent(@.sent,
                                                         reply.tokens)]]
                      ELSE [d1 EXCEPT !.reqs[i].pc = "update",
                                      !.reqs[i].tokens = reply.tokens,
                                      !.idp[r.grant] =
                                          [issued |-> reply.issued,
                                           valid |-> reply.valid,
                                           sent |-> @.sent]]
        /\ UNCHANGED <<vars, login, mock, tok, lat, mig>>

\* The request's UPDATE runs and the handler answers 200, or the UPDATE
\* rejects and it answers 500.
TokenUpdate ==
    \E i \in DOMAIN d1.reqs, runOk \in BOOLEAN :
        /\ d1.reqs[i].pc = "update"
        /\ LET r == d1.reqs[i]
           IN  d1' = IF ~runOk THEN [d1 EXCEPT !.reqs[i] = FreeReq]
                     ELSE [d1 EXCEPT
                             !.reqs[i] = FreeReq,
                             !.idp[r.grant].sent = Sent(@, r.tokens),
                             !.rows[r.session_id] =
                                 updateSession(@, r.tokens, r.refreshToken,
                                               d1.now)]
        /\ UNCHANGED <<vars, login, mock, tok, lat, mig>>

\* getAuthPropsFromSession(sessionId, db)
GetAuthProps ==
    \E s \in DOMAIN d1.rows :
        /\ d1' = [d1 EXCEPT !.call =
                     [op |-> "auth", seq |-> 1 - d1.call.seq,
                      sessionId |-> s,
                      props |-> getAuthPropsFromSession(d1.rows[s], d1.now),
                      changes |-> 0]]
        /\ UNCHANGED <<vars, login, mock, tok, lat, mig>>

\* cleanupExpiredSessions(db)
Cleanup ==
    /\ LET result == cleanupExpiredSessions(d1.rows, d1.now)
       IN  d1' = [d1 EXCEPT !.rows = result.rows,
                            !.call = [op |-> "sweep",
                                      seq |-> 1 - d1.call.seq,
                                      sessionId |-> "none",
                                      props |-> NullProps,
                                      changes |-> result.changes]]
    /\ UNCHANGED <<vars, login, mock, tok, lat, mig>>

\* The sessions as the callback stores them, read and swept.
SessionNext ==
    \/ Tick
    \/ StoreSession
    \/ GetAuthProps
    \/ Cleanup

SessionSpec == SessionInit /\ [][SessionNext]_<<vars, login, mock, rest>>

\* One session and the POST /token requests refreshing it.
RefreshInit ==
    /\ OAuthIdle
    /\ LoginIdle
    /\ mock = NoMock
    /\ tok = NoTok /\ lat = NoLat /\ mig = NoMig
    /\ d1 = SessionStore({"s1"}, MaxRequests)

RefreshNext ==
    \/ Tick
    \/ StoreSession
    \/ TokenBegin
    \/ TokenFetch
    \/ TokenUpdate
    \/ GetAuthProps
    \/ Cleanup

RefreshSpec == RefreshInit /\ [][RefreshNext]_<<vars, login, mock, rest>>

---------------------------------------------------------------------------
\* Claims about the session store

\* The session has expired at the instant (now): its expires_at has passed.
Expired(session, now) == session.expires_at < now

\* C21: getAuthPropsFromSession returns identity props only for a session
\* that exists and whose expires_at has not passed, and then the props of
\* that session's row; for a missing or an expired session it returns null.
C21_PropsOnlyForLiveSession ==
    [][(d1'.call.seq # d1.call.seq /\ d1'.call.op = "auth") =>
          LET session == d1.rows[d1'.call.sessionId]
              props == d1'.call.props
          IN  /\ ~props.isNull =>
                    /\ session.present
                    /\ ~Expired(session, d1.now)
                    /\ props.userId = session.user_id
                    /\ props.accessToken = session.access_token
                    /\ props.refreshToken = session.refresh_token
              /\ (~session.present \/ Expired(session, d1.now)) =>
                    props = NullProps]_<<vars, login, mock, rest>>

\* The call returned null for a session stored and expired, while the
\* other session is live.
C21_Witness ==
    /\ d1.call.op = "auth"
    /\ d1.call.props = NullProps
    /\ d1.rows[d1.call.sessionId].present
    /\ Expired(d1.rows[d1.call.sessionId], d1.now)
    /\ \E s \in DOMAIN d1.rows :
          d1.rows[s].present /\ ~Expired(d1.rows[s], d1.now)

\* C22: cleanupExpiredSessions deletes every session whose expires_at has
\* passed and no session that has not yet expired, and returns the number
\* of sessions it deleted.
C22_SweepDeletesExpiredOnly ==
    [][(d1'.call.seq # d1.call.seq /\ d1'.call.op = "sweep") =>
          LET deleted == { s \in DOMAIN d1.rows :
                              d1.rows[s].present /\ ~d1'.rows[s].present }
          IN  /\ \A s \in DOMAIN d1.rows :
                    d1.rows[s].present =>
                       IF Expired(d1.rows[s], d1.now)
                       THEN ~d1'.rows[s].present
                       ELSE d1'.rows[s] = d1.rows[s]
              /\ d1'.call.changes = Cardinality(deleted)
         ]_<<vars, login, mock, rest>>

\* A sweep deleted one session and left one that expires at this instant.
C22_Witness ==
    /\ d1.call.op = "sweep"
    /\ d1.call.changes = 1
    /\ \E s \in DOMAIN d1.rows :
          d1.rows[s].present /\ d1.rows[s].expires_at = d1.now

\* C23: no concurrent-writer conflict is possible on a session record: under
\* every interleaving of POST /token requests for the same session_id, no
\* request writes the row on the basis of a refresh token that another
\* refresh has already replaced: when a request's UPDATE changes the row,
\* the row still holds the refresh token the request read from it.
C23_NoStaleRefreshWrite ==
    [][\A i \in DOMAIN d1.reqs :
          (d1.reqs[i].pc = "update" /\ d1'.reqs[i].pc = "free"
              /\ d1'.rows # d1.rows) =>
             d1.rows[d1.reqs[i].session_id].refresh_token
                = d1.reqs[i].refreshToken]_<<vars, login, mock, rest>>

---------------------------------------------------------------------------
\* Further claims about grove login

\* C27: every poll result other than authorization_pending and slow_down
\* ends the polling loop; in particular an error code outside the five
\* handled ones (invalid_client, unsupported_grant_type) is never followed
\* by another poll.
C27_OtherResultsEndLoop ==
    [][(login.polled
          /\ login.lastReply \notin {"authorization_pending", "slow_down"})
       => login'.lastPollAt = login.lastPollAt]_<<vars, login, mock, rest>>

\* C28: whenever the device-flow login ends by reporting a failure
\* (network_error, access_denied, expired_token, invalid_grant or timeout),
\* no token has been saved by that run.
C28_FailureSavesNothing ==
    (login.pc = "done"
        /\ login.outcome \in {"network_error", "access_denied",
                              "expired_token", "invalid_grant", "timeout"}) =>
       login.saved = "none"

---------------------------------------------------------------------------
\* The CLI's token storage (cli/utils/auth.ts) and grove logout.

\* credentials.json holding '{}', holding text that is not JSON, and holding
\* { token }.
EmptyCredentials == [exists |-> TRUE, json |-> TRUE, token |-> UNDEF]

CorruptCredentials == [exists |-> TRUE, json |-> FALSE, token |-> UNDEF]

Credentials(token) == [exists |-> TRUE, json |-> TRUE, token |-> token]

\* loadCredentials: null when the file does not exist; throws when readFile
\* or JSON.parse throws; the parsed credentials otherwise.
loadCredentials(file, readOk) ==
    IF ~file.exists THEN [threw |-> FALSE, isNull |-> TRUE, token |-> UNDEF]
    ELSE IF ~readOk \/ ~file.json
    THEN [threw |-> TRUE, isNull |-> TRUE, token |-> UNDEF]
    ELSE [threw |-> FALSE, isNull |-> FALSE, token |-> file.token]

\* A faulty getToken that looks at GROVE_TOKEN before the keychain.
getToken_EnvFirst(t, kcOk, fileOk) ==
    LET keychainToken == IF t.keytar /\ kcOk THEN t.keychain ELSE NULL
        creds == loadCredentials(t.file, fileOk)
    IN  IF Truthy(t.env) THEN t.env
        ELSE IF Truthy(keychainToken) THEN keychainToken
        ELSE IF ~creds.threw /\ ~creds.isNull /\ Truthy(creds.token)
        THEN creds.token
        ELSE NULL

\* getToken on the storage (t), when kt.getPassword resolves (kcOk) or
\* throws and readFile resolves (fileOk) or throws.
getToken(t, kcOk, fileOk) ==
    LET keychainToken == IF t.keytar /\ kcOk THEN t.keychain ELSE NULL
        creds == loadCredentials(t.file, fileOk)
    IN  IF Truthy(keychainToken) THEN keychainToken
        ELSE IF Truthy(t.env) THEN t.env
        ELSE IF ~creds.threw /\ ~creds.isNull /\ Truthy(creds.token)
        THEN creds.token
        ELSE NULL

\* saveToken(token): 'keychain' when kt.setPassword resolves (kcOk); else
\* saveCredentials, 'file' when its writes resolve (fileOk), a throw when
\* not.
saveToken(t, token, kcOk, fileOk) ==
    IF t.keytar /\ kcOk
    THEN [store |-> [t EXCEPT !.keychain = token], result |-> "keychain"]
    ELSE IF fileOk
    THEN [store |-> [t EXCEPT !.file = Credentials(token)],
          result |-> "file"]
    ELSE [store |-> t, result |-> "throw"]

\* deleteToken(): kt.deletePassword resolves (kcOk) or throws, and the
\* writeFile of '{}' over an existing credentials file resolves (fileOk) or
\* throws; both throws are ignored.
deleteToken(t, kcOk, fileOk) ==
    [t EXCEPT !.keychain = IF t.keytar /\ kcOk THEN NULL ELSE @,
              !.file = IF @.exists /\ fileOk THEN EmptyCredentials ELSE @]

\* What the machine can hold before a command runs.
StoredKeychain == {NULL, "tok-keychain"}

EnvValues == {UNDEF, "", "tok-env"}

StoredFiles ==
    {NoFile, EmptyCredentials, CorruptCredentials, Credentials("tok-file")}

\* The tokens a login saves.
LoginTokens == {"tok-login"}

TokInit ==
    /\ OAuthIdle
    /\ LoginIdle
    /\ mock = NoMock
    /\ d1 = NoD1 /\ lat = NoLat /\ mig = NoMig
    /\ \E kt \in BOOLEAN, kc \in StoredKeychain, env \in EnvValues,
          file \in StoredFiles :
          tok = [NoTok EXCEPT !.keytar = kt, !.keychain = kc, !.env = env,
                              !.file = file]

\* A command calls getToken().
GetToken ==
    \E kcOk \in BOOLEAN, fileOk \in BOOLEAN :
        /\ tok' = [tok EXCEPT !.last =
                      [op |-> "getToken", token |-> NULL,
                       result |-> getToken(tok, kcOk, fileOk),
                       authed |-> FALSE, kcOk |-> kcOk, fileOk |-> fileOk]]
        /\ UNCHANGED <<vars, login, mock, d1, lat, mig>>

\* A command calls isAuthenticated(): token !== null.
IsAuthenticated ==
    \E kcOk \in BOOLEAN, fileOk \in BOOLEAN :
        /\ LET token == getToken(tok, kcOk, fileOk)
           IN  tok' = [tok EXCEPT !.last =
                          [op |-> "isAuthenticated", token |-> NULL,
                           result |-> token, authed |-> token # NULL,
                           kcOk |-> kcOk, fileOk |-> fileOk]]
        /\ UNCHANGED <<vars, login, mock, d1, lat, mig>>

\* grove login calls saveToken(token).
SaveToken ==
    \E token \in LoginTokens, kcOk \in BOOLEAN, fileOk \in BOOLEAN :
        /\ LET saved == saveToken(tok, token, kcOk, fileOk)
           IN  tok' = [saved.store EXCEPT
                         !.since = IF saved.result = "throw" THEN @
                                   ELSE [event |-> "saved", token |-> token,
                                         clean |-> ~tok.keytar \/ kcOk],
                         !.last = [op |-> "saveToken", token |-> token,
                                   result |-> saved.result, authed |-> FALSE,
                                   kcOk |-> kcOk, fileOk |-> fileOk]]
        /\ UNCHANGED <<vars, login, mock, d1, lat, mig>>

\* grove logout: 'Already logged out' when getToken() gives none; else
\* revokeSession(), whose failure is ignored, then deleteToken().
Logout ==
    \E readKcOk \in BOOLEAN, readFileOk \in BOOLEAN, revoked \in BOOLEAN,
       kcOk \in BOOLEAN, fileOk \in BOOLEAN :
        /\ LET token == getToken(tok, readKcOk, readFileOk)
           IN  tok' = IF ~Truthy(token)
                      THEN [tok EXCEPT !.last =
                              [op |-> "logout", token |-> NULL,
                               result |-> "Already logged out",
                               authed |-> FALSE, kcOk |-> readKcOk,
                               fileOk |-> readFileOk]]
                      ELSE [deleteToken(tok, kcOk, fileOk) EXCEPT
                              !.since = [event |-> "deleted",
                                         token |-> NULL,
                                         clean |->
                                            /\ tok.keytar => kcOk
                                            /\ tok.file.exists => fileOk],
                              !.last = [op |-> "logout", token |-> token,
                                        result |-> "Logged out",
                                        authed |-> FALSE, kcOk |-> kcOk,
                                        fileOk |-> fileOk]]
        /\ UNCHANGED <<vars, login, mock, d1, lat, mig>>

TokNext ==
    \/ GetToken
    \/ IsAuthenticated
    \/ SaveToken
    \/ Logout

TokSpec == TokInit /\ [][TokNext]_<<vars, login, mock, rest>>

---------------------------------------------------------------------------
\* Claims about the token storage

\* The credentials file holds a token.
FileToken == tok.file.exists /\ tok.file.json /\ Truthy(tok.file.token)

\* C24 as stated: getToken returns the keychain token when one is stored,
\* otherwise the GROVE_TOKEN value when it is set, otherwise the
\* credentials-file token, otherwise null.
C24_Original ==
    tok.last.op = "getToken" =>
        tok.last.result =
            IF Truthy(tok.keychain) THEN tok.keychain
            ELSE IF Truthy(tok.env) THEN tok.env
            ELSE IF FileToken THEN tok.file.token
            ELSE NULL

\* C24, amended: getToken returns the keychain token when keytar loads and
\* the keychain read succeeds and gives a non-empty token; otherwise the
\* GROVE_TOKEN value when that is non-empty; otherwise the token of the
\* credentials file when the file can be read, is JSON and has a non-empty
\* token; otherwise null.
C24_PriorityOrder ==
    tok.last.op = "getToken" =>
        tok.last.result =
            IF tok.keytar /\ tok.last.kcOk /\ Truthy(tok.keychain)
            THEN tok.keychain
            ELSE IF Truthy(tok.env) THEN tok.env
            ELSE IF tok.last.fileOk /\ FileToken THEN tok.file.token
            ELSE NULL

\* getToken returned the GROVE_TOKEN value although the keychain holds a
\* token, because the keychain read failed.
C24_Witness ==
    /\ tok.last.op = "getToken"
    /\ tok.keytar /\ ~tok.last.kcOk
    /\ Truthy(tok.keychain) /\ Truthy(tok.env) /\ FileToken
    /\ tok.last.result = tok.env

\* The last call read the keychain (when keytar loads) and the credentials
\* file without a failure.
ReadsSucceeded == (tok.keytar => tok.last.kcOk) /\ tok.last.fileOk

\* C25: after logout has run deleteToken, whether or not the server-side
\* revoke succeeded, the token is gone from all storage locations: the next
\* getToken returns null and isAuthenticated returns false (stated for the
\* runs in which no keychain or file call of deleteToken or of the next
\* call fails).
C25_LoggedOutMeansNoToken ==
    (tok.since.event = "deleted" /\ tok.since.clean /\ ReadsSucceeded
        /\ tok.last.op \in {"getToken", "isAuthenticated"}) =>
       /\ tok.last.result = NULL
       /\ ~tok.last.authed

\* C29: after saveToken(t) completes, the next getToken() returns t,
\* whatever the keychain, GROVE_TOKEN and the credentials file held before
\* and whether or not the keychain write succeeded (stated for the runs in
\* which the reads of that getToken do not fail).
C29_SavedTokenIsRead ==
    (tok.since.event = "saved" /\ ReadsSucceeded
        /\ tok.last.op = "getToken") =>
       tok.last.result = tok.since.token

---------------------------------------------------------------------------
\* The Lattice write tools (registerLatticeTools).

\* The blogs, and the agent.props an authenticated agent can have: none, or
\* props with the tenant list the auth handler put there.
Tenants == {"blog-a", "blog-b", "blog-c"}

AgentProps ==
    { NoLat.props }
    \cup { [defined |-> TRUE, tenants |-> ts, accessToken |-> at] :
             ts \in SUBSET {"blog-a", "blog-b"}, at \in BOOLEAN }

\* What the Lattice API does with a request: the fetch rejects, the status
\* is not 2xx, or it succeeds.
LatticeReplies == {"reject", "http_error", "ok"}

\* agent.props?.tenants ?? []
userTenants(props) == IF props.defined THEN props.tenants ELSE {}

\* getAuthHeaders: an Authorization header iff agent.props?.accessToken
getAuthHeaders(props) == props.defined /\ props.accessToken

\* The guard of the write tools:
\* userTenants.length > 0 && !userTenants.includes(tenant)
accessDenied(props, tenant) ==
    userTenants(props) # {} /\ tenant \notin userTenants(props)

\* A write tool after its guard: the request with (method) for (tenant),
\* and the tool's result by the API's reply.
writePost(props, tenant, method, done, reply) ==
    IF accessDenied(props, tenant)
    THEN [request |-> NoRequest, result |-> "denied"]
    ELSE [request |-> [sent |-> TRUE, method |-> method, tenant |-> tenant,
                       authorization |-> getAuthHeaders(props)],
          result |-> CASE reply = "ok" -> done
                       [] reply = "http_error" -> "http_error"
                       [] OTHER -> "error"]

lattice_post_create(props, tenant, reply) ==
    writePost(props, tenant, "POST", "created", reply)

lattice_post_update(props, tenant, reply) ==
    writePost(props, tenant, "PATCH", "updated", reply)

lattice_post_delete(props, tenant, reply) ==
    writePost(props, tenant, "DELETE", "deleted", reply)

LatInit ==
    /\ OAuthIdle
    /\ LoginIdle
    /\ mock = NoMock
    /\ d1 = NoD1 /\ tok = NoTok /\ mig = NoMig
    /\ \E props \in AgentProps : lat = [NoLat EXCEPT !.props = props]

\* The agent calls a tool with a tenant.
CallTool(tool, tenant, out) ==
    /\ lat' = [lat EXCEPT !.tool = tool, !.tenant = tenant,
                          !.request = out.request, !.result = out.result]
    /\ UNCHANGED <<vars, login, mock, d1, tok, mig>>

PostCreate ==
    \E tenant \in Tenants, reply \in LatticeReplies :
        CallTool("lattice_post_create", tenant,
                 lattice_post_create(lat.props, tenant, reply))

PostUpdate ==
    \E tenant \in Tenants, reply \in LatticeReplies :
        CallTool("lattice_post_update", tenant,
                 lattice_post_update(lat.props, tenant, reply))

PostDelete ==
    \E tenant \in Tenants, reply \in LatticeReplies :
        CallTool("lattice_post_delete", tenant,
                 lattice_post_delete(lat.props, tenant, reply))

LatNext ==
    \/ PostCreate
    \/ PostUpdate
    \/ PostDelete

LatSpec == LatInit /\ [][LatNext]_<<vars, login, mock, rest>>

\* C26: the Lattice write tools (lattice_post_create, lattice_post_update,
\* lattice_post_delete) send no request to the Lattice API for a tenant that
\* is not in the authenticated user's tenant list.
C26_NoRequestForForeignTenant ==
    (lat.props.defined /\ lat.request.sent)
        => lat.request.tenant \in lat.props.tenants

---------------------------------------------------------------------------
\* The migrations of the Durable Object's SQLite storage (migrations.ts).

MaxMigrations == 4

\* The migrations array of a release: versions 1..n in order.  The source's
\* array is migrations(1).
migrations(n) == [i \in 1..n |-> [version |-> i]]

\* SELECT MAX(version) FROM _migrations: 0 when the table does not exist
\* (the catch) or holds no row.
getCurrentVersion_NoRows(db) == 0

getCurrentVersion(db) ==
    IF ~db.table \/ db.rows = {}
    THEN 0
    ELSE CHOOSE v \in db.rows : \A w \in db.rows : w <= v

\* The loop of runMigrations from entry (i) of (array): each entry above
\* (currentVersion) has its up executed and its row inserted.  The up of
\* version (failAt) throws, which ends the run.
RECURSIVE runPending(_, _, _, _, _, _)
runPending(db, array, i, currentVersion, failAt, log) ==
    IF i > Len(array)
    THEN [db |-> db, applied |-> log, completed |-> TRUE]
    ELSE LET migration == array[i]
         IN  IF migration.version > currentVersion
             THEN IF migration.version = failAt
                  THEN [db |-> db, applied |-> log, completed |-> FALSE]
                  ELSE runPending(
                         [db EXCEPT
                            !.schema = @ \cup {migration.version},
                            !.rows = @ \cup {migration.version}],
                         array, i + 1, currentVersion, failAt,
                         Append(log, migration.version))
             ELSE runPending(db, array, i + 1, currentVersion, failAt, log)

runMigrations(db, array, failAt) ==
    LET created == [db EXCEPT !.table = TRUE]
    IN  runPending(created, array, 1, getCurrentVersion(created), failAt,
                   <<>>)

\* The loop of rollbackTo from entry (i) of (array) downwards.
RECURSIVE rollbackFrom(_, _, _, _, _)
rollbackFrom(db, array, i, targetVersion, currentVersion) ==
    IF i < 1
    THEN db
    ELSE LET migration == array[i]
         IN  IF /\ migration.version > targetVersion
                /\ migration.version <= currentVersion
             THEN rollbackFrom(
                    [db EXCEPT !.schema = @ \ {migration.version},
                               !.rows = @ \ {migration.version}],
                    array, i - 1, targetVersion, currentVersion)
             ELSE rollbackFrom(db, array, i - 1, targetVersion,
                               currentVersion)

rollbackTo(db, array, targetVersion) ==
    rollbackFrom(db, array, Len(array), targetVersion,
                 getCurrentVersion(db))

MigInit ==
    /\ OAuthIdle
    /\ LoginIdle
    /\ mock = NoMock
    /\ d1 = NoD1 /\ tok = NoTok /\ lat = NoLat
    /\ mig = NoMig

\* The Durable Object starts: its constructor runs the migrations.
RunMigrations ==
    \E failAt \in 0..MaxMigrations :
        LET run == runMigrations(mig, migrations(mig.release), failAt)
        IN  /\ mig' = [run.db EXCEPT
                         !.call = [op |-> "runMigrations",
                                   seq |-> 1 - mig.call.seq,
                                   applied |-> run.applied,
                                   completed |-> run.completed]]
            /\ UNCHANGED <<vars, login, mock, d1, tok, lat>>

RollbackTo ==
    \E targetVersion \in 0..MaxMigrations :
        /\ mig' = [rollbackTo(mig, migrations(mig.release), targetVersion)
                     EXCEPT !.call = [op |-> "rollbackTo",
                                      seq |-> 1 - mig.call.seq,
                                      applied |-> <<>>,
                                      completed |-> TRUE]]
        /\ UNCHANGED <<vars, login, mock, d1, tok, lat>>

\* A release of the code with one more migration is deployed.
Release ==
    /\ mig.release < MaxMigrations
    /\ mig' = [mig EXCEPT !.release = @ + 1,
                          !.call = [op |-> "release",
                                    seq |-> 1 - mig.call.seq,
                                    applied |-> <<>>,
                                    completed |-> TRUE]]
    /\ UNCHANGED <<vars, login, mock, d1, tok, lat>>

MigNext ==
    \/ RunMigrations
    \/ RollbackTo
    \/ Release

MigSpec == MigInit /\ [][MigNext]_<<vars, login, mock, rest>>

\* The version the storage records: the greatest row of _migrations.
Recorded(db) ==
    IF db.rows = {} THEN 0 ELSE CHOOSE v \in db.rows : \A w \in db.rows : w <= v

\* C30: a run of runMigrations that returns has executed, once each and in
\* ascending version order, exactly the migrations whose version exceeds
\* the version recorded before the run; afterwards getCurrentVersion is the
\* highest migration version, and another run applies nothing.
C30_PendingOnceAscending ==
    [][(/\ mig'.call.seq # mig.call.seq
        /\ mig'.call.op = "runMigrations"
        /\ mig'.call.completed) =>
          LET applied == mig'.call.applied
              array == migrations(mig.release)
          IN  /\ \A i \in 1..Len(array) :
                    Cardinality({k \in 1..Len(applied) :
                                   applied[k] = array[i].version})
                      = IF array[i].version > Recorded(mig) THEN 1 ELSE 0
              /\ \A k \in 1..Len(applied) :
                    \E i \in 1..Len(array) : applied[k] = array[i].version
              /\ \A j, k \in 1..Len(applied) :
                    j < k => applied[j] < applied[k]
              /\ getCurrentVersion(mig') = array[Len(array)].version
              /\ runMigrations(mig', array, 0).applied = <<>>
      ]_<<vars, login, mock, rest>>

\* A run on storage that already recorded version 1 applied versions 2 and
\* 3, and returned.
C30_Witness ==
    /\ mig.call.op = "runMigrations"
    /\ mig.call.completed
    /\ mig.call.applied = <<2, 3>>
    /\ mig.rows = {1, 2, 3}

====
